---- MODULE Spec2Model ----
(***************************************************************************)
(* Model of the keyword-intelligence worker (normalise, embed, classify,   *)
(* cluster, persist) and of the monitoring worker (forecast, health score) *)
(* of the SEO tool.  Texts are sequences of one-character strings; real    *)
(* numbers are exact rationals <<numerator, denominator>> where the code   *)
(* only adds and compares them, and fixed-point integers elsewhere.        *)
(***************************************************************************)
EXTENDS Integers, Sequences, FiniteSets, TLC

\* ---- bounds of the model ------------------------------------------------
MaxKeywords == 2      \* keywords in one classify_batch call
MaxItems == 2         \* result objects in one LLM response
MaxClusterKeywords == 4   \* keywords in one cluster_keywords call
MaxAddCalls == 2          \* add_keyword calls on one cluster
MaxTaskKeywords == 4      \* raw keywords in one analysis task
MaxSeriesLen == 4         \* values in one time series handed to forecast
MaxAnomalies == 4         \* anomalies handed to _calculate_health_score
MaxForecasts == 2         \* forecasts handed to _calculate_health_score
MaxTextLen == 3           \* characters of one text handed to normalize_text
MaxNormKeywords == 3      \* keywords handed to normalize_keywords
MaxSimilarityLen == 3     \* characters of one text handed to calculate_similarity
MaxDedupKeywords == 4     \* keywords handed to deduplicate
MaxStoreCalls == 3        \* calls on one TimeSeriesStore
MaxStorePoints == 2       \* data points of one TimeSeriesData
MaxDetectLen == 8         \* values in one time series handed to detect
MaxConfidenceLen == 3     \* values in one series handed to a forecast method
MaxConfidenceDays == 90   \* day offsets one forecast method is called for
MaxCallers == 2           \* coroutines calling get_agent
MaxGetCalls == 3          \* get_agent calls of one run
MaxShutdowns == 2         \* shutdown_agent calls of one run
MaxAlertAnomalies == 3    \* anomalies handed to generate_alerts
MaxAlertForecasts == 1    \* forecasts handed to generate_alerts

VARIABLES
  kws,            \* the Keyword objects, by identity
  use_llm,        \* classify_batch: argument use_llm
  cb_pc,          \* classify_batch: "idle", "llm" (inside _llm_classify), "returned"
  classified,     \* classify_batch: local list classified (positions)
  ambiguous,      \* classify_batch: local list ambiguous (positions)
  matched_signals, \* _rule_based_classify: matched_signals of each keyword, by intent
  attempt,        \* tenacity: attempts of _llm_classify made so far
  llm_log         \* outcome of every llm_client.complete call, in order

VARIABLES
  self_min_cluster_size,  \* KeywordClusterService.config.min_cluster_size
  cs_pc,                  \* cluster service: "idle", "clustered"
  cs_config,              \* cluster_keywords: min_cluster_size of the config in force
  cs_clusters             \* cluster_keywords: the returned list of clusters

VARIABLES
  pc,               \* analyze: the stage about to run, or "returned"
  task,             \* analyze: task.keywords, the raw texts
  analyze_keywords, \* analyze: the local list keywords (identities of Keyword objects)
  clusters,         \* analyze: the local clusters
  orphan_keywords,  \* analyze: the local orphan_keywords
  elapsed,          \* time.time() - start_time, in seconds
  analyze_result,   \* the KeywordAnalysisResult returned
  repository,       \* what KeywordRepository holds
  vector_storage,   \* what VectorStorageAdapter holds
  events            \* collaborator calls and budget trips of the run, in order

VARIABLES
  fc_pc,            \* forecast: "idle", "loop", "returned"
  fc_config,        \* TrafficForecaster.config.forecast
  fc_values,        \* time_series.values
  fc_horizons,      \* the horizons argument
  daily_forecasts,  \* forecast: the local daily_forecasts
  forecast_result   \* what forecast returned

VARIABLES
  hs_pc,         \* _calculate_health_score: "idle", "returned"
  hs_anomalies,  \* the anomalies argument
  hs_forecasts,  \* the forecasts argument
  health_score   \* what the call produced

classifyVars == <<use_llm, cb_pc, classified, ambiguous, matched_signals, attempt, llm_log>>
clusterVars == <<self_min_cluster_size, cs_pc, cs_config, cs_clusters>>

agentVars == <<pc, task, analyze_keywords, clusters, orphan_keywords, elapsed,
               analyze_result,
               repository, vector_storage, events>>

forecastVars == <<fc_pc, fc_config, fc_values, fc_horizons, daily_forecasts, forecast_result>>

healthVars == <<hs_pc, hs_anomalies, hs_forecasts, health_score>>

VARIABLES
  nz_pc,        \* normalizer: "idle", "once", "twice", "returned"
  nz_self,      \* the KeywordNormalizer: its four settings
  nz_text,      \* normalize_text: the argument text
  nz_once,      \* normalize_text(text)
  nz_twice,     \* normalize_text(normalize_text(text))
  nz_keywords,  \* normalize_keywords: the argument keywords
  nz_valid      \* normalize_keywords: the returned valid_keywords

normalizeVars == <<nz_pc, nz_self, nz_text, nz_once, nz_twice, nz_keywords, nz_valid>>

VARIABLES
  sd_pc,          \* deduplicator: "idle", "returned"
  sd_threshold,   \* SimilarityDeduplicator.similarity_threshold, a rational
  sd_keywords,    \* deduplicate: the argument keywords
  sd_unique,      \* deduplicate: the returned list unique
  sd_text1,       \* calculate_similarity: the argument text1
  sd_text2,       \* calculate_similarity: the argument text2
  sd_similarity   \* calculate_similarity: the returned value, a rational

dedupVars == <<sd_pc, sd_threshold, sd_keywords, sd_unique, sd_text1, sd_text2, sd_similarity>>

VARIABLES
  ts_data,     \* TimeSeriesStore._data: the points of each (site, metric, dimension) present
  ts_rankings, \* TimeSeriesStore._rankings: the rankings of each keyword of each site present
  ts_call,     \* the latest call on the store: method, arguments, returned value
  ts_calls     \* calls made on the store so far

storeVars == <<ts_data, ts_rankings, ts_call, ts_calls>>

VARIABLES
  dt_pc,           \* detector: "idle", "returned"
  dt_config,       \* AnomalyDetector.config.anomaly
  dt_values,       \* detect: time_series.values, in date order
  dt_metric,       \* detect: time_series.metric_type
  dt_sensitivity,  \* detect: the argument sensitivity, a rational
  dt_anomalies,    \* detect: the returned list of anomalies
  dt_z,            \* _calculate_severity: two z-scores, rationals
  dt_tiers         \* _calculate_severity: what it returned for |z| of each

detectVars == <<dt_pc, dt_config, dt_values, dt_metric, dt_sensitivity, dt_anomalies,
                dt_z, dt_tiers>>

VARIABLES
  cf_pc,           \* forecast methods: "idle", "calling"
  cf_config,       \* TrafficForecaster.config.forecast
  cf_values,       \* the argument values of the method
  cf_method,       \* which of the four methods is called
  cf_confidences   \* the confidence returned for days_ahead = 1, 2, ...

confidenceVars == <<cf_pc, cf_config, cf_values, cf_method, cf_confidences>>

VARIABLES
  dp_agent,      \* dependencies._agent: 0 for None, else the id of the agent instance
  dp_pc,         \* get_agent of each caller: "idle", "creating" (awaiting create_agent), "returned"
  dp_got,        \* the instance each caller received from its latest call, 0 before
  dp_shutdown,   \* shutdown_agent: "idle", "closing" (awaiting _agent.close())
  dp_log         \* the steps of the run: enter, create, return, shutdown

dependencyVars == <<dp_agent, dp_pc, dp_got, dp_shutdown, dp_log>>

VARIABLES
  am_pc,          \* generate_alerts: "calling", "returned"
  am_config,      \* AlertManager.config.alert
  am_anomalies,   \* the argument anomalies
  am_forecasts,   \* the argument forecasts
  am_candidates,  \* the local alerts before it is sorted and cut
  am_alerts       \* the list generate_alerts returned

alertVars == <<am_pc, am_config, am_anomalies, am_forecasts, am_candidates, am_alerts>>

vars == <<kws, classifyVars, clusterVars, agentVars, forecastVars, healthVars, normalizeVars, dedupVars, storeVars, detectVars, confidenceVars, dependencyVars, alertVars>>

\* what each component leaves alone
outsideClassifier == <<clusterVars, agentVars, forecastVars, healthVars, normalizeVars, dedupVars, storeVars, detectVars, confidenceVars, dependencyVars, alertVars>>
outsideCluster == <<classifyVars, agentVars, forecastVars, healthVars, normalizeVars, dedupVars, storeVars, detectVars, confidenceVars, dependencyVars, alertVars>>
outsideAgent == <<classifyVars, clusterVars, forecastVars, healthVars, normalizeVars, dedupVars, storeVars, detectVars, confidenceVars, dependencyVars, alertVars>>
outsideForecaster == <<kws, classifyVars, clusterVars, agentVars, healthVars, normalizeVars, dedupVars, storeVars, detectVars, confidenceVars, dependencyVars, alertVars>>
outsideHealth == <<kws, classifyVars, clusterVars, agentVars, forecastVars, normalizeVars, dedupVars, storeVars, detectVars, confidenceVars, dependencyVars, alertVars>>
outsideNormalizer == <<kws, classifyVars, clusterVars, agentVars, forecastVars, healthVars, dedupVars, storeVars, detectVars, confidenceVars, dependencyVars, alertVars>>
outsideDeduplicator == <<kws, classifyVars, clusterVars, agentVars, forecastVars, healthVars, normalizeVars, storeVars, detectVars, confidenceVars, dependencyVars, alertVars>>
outsideStore == <<kws, classifyVars, clusterVars, agentVars, forecastVars, healthVars, normalizeVars, dedupVars, detectVars, confidenceVars, dependencyVars, alertVars>>
outsideDetector == <<kws, classifyVars, clusterVars, agentVars, forecastVars, healthVars, normalizeVars, dedupVars, storeVars, confidenceVars, dependencyVars, alertVars>>
outsideConfidence == <<kws, classifyVars, clusterVars, agentVars, forecastVars, healthVars, normalizeVars, dedupVars, storeVars, detectVars, dependencyVars, alertVars>>
outsideDependencies == <<kws, classifyVars, clusterVars, agentVars, forecastVars, healthVars, normalizeVars, dedupVars, storeVars, detectVars, confidenceVars, alertVars>>
outsideAlerts == <<kws, classifyVars, clusterVars, agentVars, forecastVars, healthVars, normalizeVars, dedupVars, storeVars, detectVars, confidenceVars, dependencyVars>>

\* ---- rationals ------------------------------------------------------------
RLeq(a, b) == a[1] * b[2] <= b[1] * a[2]
REq(a, b) == a[1] * b[2] = b[1] * a[2]
RMin(a, b) == IF RLeq(a, b) THEN a ELSE b

\* ---- text -----------------------------------------------------------------
LowerLetters ==
  {"a","b","c","d","e","f","g","h","i","j","k","l","m",
   "n","o","p","q","r","s","t","u","v","w","x","y","z"}
UpperLetters == {"B", "H"}
Digits == {"0","1","2","3","4","5","6","7","8","9"}

\* str.lower on one character
LowerChar(c) == CASE c = "B" -> "b" [] c = "H" -> "h" [] OTHER -> c
\* str.lower
Lower(t) == [i \in 1..Len(t) |-> LowerChar(t[i])]

\* the regex class \w
WordChars == LowerLetters \cup UpperLetters \cup Digits \cup {"_"}
IsWordAt(t, p) == p \in 1..Len(t) /\ t[p] \in WordChars
\* the regex assertion \b at the gap in front of position p
WordBoundary(t, p) == IsWordAt(t, p - 1) # IsWordAt(t, p)

\* ---- intent classifier ----------------------------------------------------
SearchIntent == <<"informational", "commercial", "transactional", "navigational">>
IntentSet == {SearchIntent[i] : i \in 1..Len(SearchIntent)}
None == "none"

INFORMATIONAL_SIGNALS ==
  << <<"h","o","w"," ","t","o">>,
     <<"w","h","a","t"," ","i","s">>,
     <<"w","h","y">>,
     <<"g","u","i","d","e">>,
     <<"t","u","t","o","r","i","a","l">>,
     <<"l","e","a","r","n">>,
     <<"t","i","p","s">>,
     <<"i","d","e","a","s">>,
     <<"e","x","a","m","p","l","e","s">>,
     <<"d","e","f","i","n","i","t","i","o","n">>,
     <<"m","e","a","n","i","n","g">> >>

COMMERCIAL_SIGNALS ==
  << <<"b","e","s","t">>,
     <<"t","o","p">>,
     <<"r","e","v","i","e","w">>,
     <<"c","o","m","p","a","r","i","s","o","n">>,
     <<"v","s">>,
     <<"v","e","r","s","u","s">>,
     <<"a","l","t","e","r","n","a","t","i","v","e">>,
     <<"c","o","m","p","a","r","e">>,
     <<"w","h","i","c","h">>,
     <<"d","i","f","f","e","r","e","n","c","e"," ","b","e","t","w","e","e","n">> >>

TRANSACTIONAL_SIGNALS ==
  << <<"b","u","y">>,
     <<"p","r","i","c","e">>,
     <<"c","h","e","a","p">>,
     <<"d","i","s","c","o","u","n","t">>,
     <<"d","e","a","l">>,
     <<"o","r","d","e","r">>,
     <<"p","u","r","c","h","a","s","e">>,
     <<"s","h","o","p">>,
     <<"c","o","u","p","o","n">>,
     <<"s","a","l","e">>,
     <<"f","r","e","e"," ","s","h","i","p","p","i","n","g">> >>

NAVIGATIONAL_SIGNALS ==
  << <<"l","o","g","i","n">>,
     <<"s","i","g","n"," ","i","n">>,
     <<"w","e","b","s","i","t","e">>,
     <<"o","f","f","i","c","i","a","l">>,
     <<"a","p","p">>,
     <<"d","o","w","n","l","o","a","d">>,
     <<"c","o","n","t","a","c","t">>,
     <<"s","u","p","p","o","r","t">>,
     <<"a","c","c","o","u","n","t">> >>

IntentSignals ==
  [informational |-> INFORMATIONAL_SIGNALS, commercial |-> COMMERCIAL_SIGNALS,
   transactional |-> TRANSACTIONAL_SIGNALS, navigational |-> NAVIGATIONAL_SIGNALS]

\* naive containment: signal in text
SearchSignalSubstring(signal, text) ==
  \E i \in 1..(Len(text) - Len(signal) + 1) :
     Lower(SubSeq(text, i, i + Len(signal) - 1)) = Lower(signal)

\* re.search(rf'\b{re.escape(signal)}\b', text, re.IGNORECASE)
SearchSignal(signal, text) ==
  \E i \in 1..(Len(text) - Len(signal) + 1) :
     /\ Lower(SubSeq(text, i, i + Len(signal) - 1)) = Lower(signal)
     /\ WordBoundary(text, i)
     /\ WordBoundary(text, i + Len(signal))

match_signals_with_boundaries(text, signals) ==
  SelectSeq(signals, LAMBDA s : SearchSignal(s, text))

\* 'python buyer guide', 'python', 'how to buy', 'buy_now', 'top login deal guide',
\* 'Best Buy-now price'
ClassifyTexts ==
  { <<"p","y","t","h","o","n"," ","b","u","y","e","r"," ","g","u","i","d","e">>,
    <<"p","y","t","h","o","n">>,
    <<"h","o","w"," ","t","o"," ","b","u","y">>,
    <<"b","u","y","_","n","o","w">>,
    <<"t","o","p"," ","l","o","g","i","n"," ","d","e","a","l"," ","g","u","i","d","e">>,
    <<"B","e","s","t"," ","B","u","y","-","n","o","w"," ","p","r","i","c","e">> }

\* a Keyword as constructed by Keyword(text=...)
NewKeyword(text) ==
  [text |-> text, normalized_text |-> <<>>, original_text |-> <<>>, intent |-> None, intent_confidence |-> <<0, 1>>,
   intent_explanation |-> "", intent_signals |-> <<>>,
   embedding |-> <<>>, search_volume |-> 0, cluster_id |-> 0]

\* _generate_explanation returns a non-empty text that names the method
generate_explanation(method) == method

\* matched_signals of one text; <<>> stands for "not in matched_signals"
MatchedOf(text) ==
  LET text_lower == Lower(text)
  IN  [informational |-> match_signals_with_boundaries(text_lower, INFORMATIONAL_SIGNALS),
       commercial |-> match_signals_with_boundaries(text_lower, COMMERCIAL_SIGNALS),
       transactional |-> match_signals_with_boundaries(text_lower, TRANSACTIONAL_SIGNALS),
       navigational |-> match_signals_with_boundaries(text_lower, NAVIGATIONAL_SIGNALS)]

\* intent_scores[intent] = len(matches); 0 stands for "not in intent_scores"
ScoresOf(text) ==
  LET matched == MatchedOf(text)
  IN  [informational |-> Len(matched["informational"]),
       commercial |-> Len(matched["commercial"]),
       transactional |-> Len(matched["transactional"]),
       navigational |-> Len(matched["navigational"])]

SumScores(scores) ==
  scores["informational"] + scores["commercial"]
    + scores["transactional"] + scores["navigational"]

MaxScore(scores) ==
  CHOOSE m \in {scores[it] : it \in IntentSet} :
     \A it \in IntentSet : scores[it] <= m

\* max(intent_scores, key=...): the first intent, in insertion order, of maximal score
BestIntent(scores) ==
  SearchIntent[CHOOSE i \in 1..Len(SearchIntent) :
     /\ scores[SearchIntent[i]] = MaxScore(scores)
     /\ \A j \in 1..(i - 1) : scores[SearchIntent[j]] # MaxScore(scores)]

\* a scale of 50% to 100% without the cap
calculate_confidence_uncapped(scores, best_intent) ==
  LET total_score == SumScores(scores)
      best_score == scores[best_intent]
  IN  IF total_score = 0 THEN <<1, 2>>
      ELSE <<50 * total_score + 50 * best_score, 100 * total_score>>

calculate_confidence(scores, best_intent) ==
  LET total_score == SumScores(scores)
      best_score == scores[best_intent]
  IN  IF total_score = 0 THEN <<1, 2>>
      ELSE RMin(<<95, 100>>, <<50 * total_score + 45 * best_score, 100 * total_score>>)

\* a bar of 0.7
IsClearWinnerAbove(confidence) == RLeq(<<7, 10>>, confidence)
\* the confidence bar of the rule pass
IsClearWinner(confidence) == RLeq(<<6, 10>>, confidence)

\* body of the loop of _rule_based_classify for the keyword object i
RuleStep(st, i) ==
  LET keyword == st.kws[i]
      matched == MatchedOf(keyword.text)
      scores == [it \in IntentSet |-> Len(matched[it])]
      best_intent == BestIntent(scores)
      confidence == calculate_confidence(scores, best_intent)
  IN  IF SumScores(scores) > 0 /\ IsClearWinner(confidence)
      THEN [kws |-> [st.kws EXCEPT ![i] =
                       [keyword EXCEPT !.intent = best_intent,
                                       !.intent_confidence = confidence,
                                       !.intent_signals = matched[best_intent],
                                       !.intent_explanation = generate_explanation("rule_based")]],
            classified |-> Append(st.classified, i),
            ambiguous |-> st.ambiguous]
      ELSE [kws |-> st.kws, classified |-> st.classified,
            ambiguous |-> Append(st.ambiguous, i)]

RECURSIVE RuleLoop(_, _, _)
RuleLoop(st, keywords, j) ==
  IF j > Len(keywords) THEN st ELSE RuleLoop(RuleStep(st, keywords[j]), keywords, j + 1)

\* objs are the Keyword objects, keywords the list of them that was passed
rule_based_classify(objs, keywords) ==
  RuleLoop([kws |-> objs, classified |-> <<>>, ambiguous |-> <<>>], keywords, 1)

\* keyword_map = {kw.text.lower(): kw for kw in keywords}: the last keyword wins
InKeywordMap(ks, amb, key) == \E j \in 1..Len(amb) : Lower(ks[amb[j]].text) = key
KeywordMap(ks, amb, key) ==
  amb[CHOOSE j \in 1..Len(amb) :
        /\ Lower(ks[amb[j]].text) = key
        /\ \A l \in (j + 1)..Len(amb) : Lower(ks[amb[l]].text) # key]

\* the loop over the parsed results of _llm_classify; exc is the exception
\* that ended it, "none" when it ran to the end
RECURSIVE ParseLoop(_, _, _, _)
ParseLoop(ks, amb, items, j) ==
  IF j > Len(items) THEN [kws |-> ks, exc |-> "none"]
  ELSE LET result == items[j]
           kw_text == Lower(result.keyword)
       IN  IF ~InKeywordMap(ks, amb, kw_text) THEN ParseLoop(ks, amb, items, j + 1)
           ELSE IF result.intent \notin IntentSet THEN [kws |-> ks, exc |-> "ValueError"]
           ELSE LET k == KeywordMap(ks, amb, kw_text)
                IN  ParseLoop([ks EXCEPT ![k] =
                                 [@ EXCEPT !.intent = result.intent,
                                           !.intent_confidence = result.confidence,
                                           !.intent_explanation = generate_explanation("llm")]],
                              amb, items, j + 1)

\* except (json.JSONDecodeError, ValueError): default the keywords without intent
ParseFallback(ks, amb) ==
  [i \in 1..Len(ks) |->
     IF (\E j \in 1..Len(amb) : amb[j] = i) /\ ks[i].intent = None
     THEN [ks[i] EXCEPT !.intent = "informational",
                        !.intent_confidence = <<1, 2>>,
                        !.intent_explanation = generate_explanation("fallback")]
     ELSE ks[i]]

\* the part of _llm_classify after the completion returned `response`
llm_classify(ks, amb, response) ==
  IF response.kind = "invalid_json" THEN [kws |-> ParseFallback(ks, amb), exc |-> "none"]
  ELSE IF response.kind = "not_array" THEN [kws |-> ks, exc |-> "TypeError"]
  ELSE LET r == ParseLoop(ks, amb, response.items, 1)
       IN  IF r.exc = "ValueError" THEN [kws |-> ParseFallback(r.kws, amb), exc |-> "none"]
           ELSE r

\* except Exception in classify_batch: fallback to informational for ambiguous
BatchFallback(ks, amb) ==
  [i \in 1..Len(ks) |->
     IF \E j \in 1..Len(amb) : amb[j] = i
     THEN [ks[i] EXCEPT !.intent = "informational", !.intent_confidence = <<1, 2>>]
     ELSE ks[i]]

\* stop_after_attempt(3)
MAX_ATTEMPTS == 3
\* a policy that retries after every exception
IsRetryableAlways(exc) == TRUE
\* retry_if_exception_type((ConnectionError, TimeoutError))
IsRetryable(exc) == exc \in {"ConnectionError", "TimeoutError"}

\* texts an LLM response may name: those it was asked about, and one it was not
ResponseKeywords(ks, amb) == {ks[amb[j]].text : j \in 1..Len(amb)} \cup {<<"x">>}
ResponseItems(ks, amb) ==
  [keyword : ResponseKeywords(ks, amb),
   intent : {"transactional", "bogus"},
   confidence : {<<7, 10>>}]
SeqsUpTo(S, n) == UNION {[1..m -> S] : m \in 0..n}
Responses(ks, amb) ==
  {[kind |-> "invalid_json", items |-> <<>>], [kind |-> "not_array", items |-> <<>>]}
    \cup {[kind |-> "array", items |-> its] : its \in SeqsUpTo(ResponseItems(ks, amb), MaxItems)}
\* exceptions llm_client.complete may raise
CompleteErrors == {"ConnectionError", "TimeoutError", "APIError"}


\* ---- normalizer -------------------------------------------------------------
\* the regex class \s, as far as the texts of the model go
Whitespace == {" ", "\t"}

RECURSIVE LStrip(_)
LStrip(t) == IF t # <<>> /\ Head(t) \in Whitespace THEN LStrip(Tail(t)) ELSE t
RECURSIVE RStrip(_)
RStrip(t) ==
  IF t # <<>> /\ t[Len(t)] \in Whitespace THEN RStrip(SubSeq(t, 1, Len(t) - 1)) ELSE t
\* str.strip
Strip(t) == RStrip(LStrip(t))

\* re.sub(r'\s+', ' ', t): every maximal run of whitespace becomes one space
RECURSIVE CollapseWhitespace(_)
CollapseWhitespace(t) ==
  IF t = <<>> THEN <<>>
  ELSE IF Head(t) \in Whitespace
       THEN <<" ">> \o CollapseWhitespace(LStrip(t))
       ELSE <<Head(t)>> \o CollapseWhitespace(Tail(t))

\* re.sub(r'[^\w\s\-]', '', t)
RemoveSpecial(t) == SelectSeq(t, LAMBDA c : c \in WordChars \cup Whitespace \cup {"-"})

\* KeywordNormalizer(): the defaults of the constructor
DefaultNormalizer ==
  [lowercase |-> TRUE, remove_special_chars |-> FALSE, min_length |-> 2, max_length |-> 200]

normalize_text(self, text) ==
  IF text = <<>> THEN <<>>
  ELSE LET stripped == Strip(text)
           lowered == IF self.lowercase THEN Lower(stripped) ELSE stripped
           collapsed == CollapseWhitespace(lowered)
       IN  IF self.remove_special_chars THEN RemoveSpecial(collapsed) ELSE collapsed

\* is_valid without its upper limit
is_valid_unlimited(self, text) == self.min_length <= Len(text)
\* KeywordNormalizer.is_valid
is_valid(self, text) == self.min_length <= Len(text) /\ Len(text) <= self.max_length

\* normalize_keywords: st.valid is valid_keywords, whose texts are the keys of seen
RECURSIVE NormalizeLoop(_, _, _, _)
NormalizeLoop(self, keywords, i, valid) ==
  IF i > Len(keywords) THEN valid
  ELSE LET keyword == keywords[i]
           normalized == normalize_text(self, keyword.text)
       IN  IF normalized = <<>> \/ ~is_valid(self, normalized)
           THEN NormalizeLoop(self, keywords, i + 1, valid)
           ELSE IF \E j \in 1..Len(valid) : valid[j].text = normalized
           THEN NormalizeLoop(self, keywords, i + 1, valid)
           ELSE NormalizeLoop(self, keywords, i + 1,
                  Append(valid,
                    [keyword EXCEPT !.text = normalized,
                                    !.normalized_text = normalized,
                                    !.original_text =
                                       IF keyword.original_text = <<>>
                                       THEN keyword.text ELSE keyword.original_text]))

normalize_keywords(self, keywords) == NormalizeLoop(self, keywords, 1, <<>>)

normalize_raw_keywords(self, keyword_texts) ==
  LET texts == SelectSeq(keyword_texts, LAMBDA t : t # <<>>)
  IN  normalize_keywords(self, [i \in 1..Len(texts) |-> NewKeyword(texts[i])])

\* get_ngrams(text, 2)
Bigrams(t) == {SubSeq(t, i, i + 1) : i \in 1..(Len(t) - 1)}

\* calculate_similarity: Jaccard similarity of the bigram sets, as a rational
calculate_similarity(text1, text2) ==
  IF text1 = <<>> \/ text2 = <<>> THEN <<0, 1>>
  ELSE IF Bigrams(text1) = {} \/ Bigrams(text2) = {}
       THEN IF text1 = text2 THEN <<1, 1>> ELSE <<0, 1>>
       ELSE <<Cardinality(Bigrams(text1) \cap Bigrams(text2)),
              Cardinality(Bigrams(text1) \cup Bigrams(text2))>>

\* SimilarityDeduplicator.deduplicate with the given similarity_threshold
RECURSIVE DedupLoop(_, _, _, _)
DedupLoop(threshold, keywords, i, unique) ==
  IF i > Len(keywords) THEN unique
  ELSE IF \E j \in 1..Len(unique) :
             RLeq(threshold, calculate_similarity(keywords[i].text, unique[j].text))
       THEN DedupLoop(threshold, keywords, i + 1, unique)
       ELSE DedupLoop(threshold, keywords, i + 1, Append(unique, keywords[i]))

\* deduplicate that removes nothing
deduplicate_nothing(threshold, keywords) == keywords
\* SimilarityDeduplicator.deduplicate
deduplicate(threshold, keywords) == DedupLoop(threshold, keywords, 1, <<>>)


\* ---- cluster service --------------------------------------------------------
\* KeywordCluster(id=...)
NewCluster(id) ==
  [id |-> id, primary_keyword |-> 0, keywords |-> <<>>, centroid |-> <<>>,
   dominant_intent |-> None, avg_search_volume |-> <<0, 1>>, total_search_volume |-> 0]

RECURSIVE SumVolume(_, _)
SumVolume(objs, members) ==
  IF members = <<>> THEN 0
  ELSE objs[Head(members)].search_volume + SumVolume(objs, Tail(members))

CountIntent(objs, members, it) ==
  Cardinality({j \in 1..Len(members) : objs[members[j]].intent = it})

\* max(self.keywords, key=lambda kw: kw.search_volume): the first of maximal volume
MaxVolumeMember(objs, members) ==
  members[CHOOSE j \in 1..Len(members) :
     /\ \A l \in 1..Len(members) :
           objs[members[l]].search_volume <= objs[members[j]].search_volume
     /\ \A l \in 1..(j - 1) :
           objs[members[l]].search_volume < objs[members[j]].search_volume]

\* max(intent_counts, key=...): the intent of maximal count that a member shows first
ModeIntent(objs, members) ==
  objs[members[CHOOSE j \in 1..Len(members) :
     /\ objs[members[j]].intent # None
     /\ \A l \in 1..Len(members) :
           objs[members[l]].intent # None =>
              CountIntent(objs, members, objs[members[l]].intent)
                 <= CountIntent(objs, members, objs[members[j]].intent)
     /\ \A l \in 1..(j - 1) :
           objs[members[l]].intent # None =>
              CountIntent(objs, members, objs[members[l]].intent)
                 < CountIntent(objs, members, objs[members[j]].intent)]].intent

\* _update_aggregations that takes the first member as primary keyword
update_aggregations_first(objs, cluster) ==
  IF cluster.keywords = <<>> THEN cluster
  ELSE [cluster EXCEPT
          !.total_search_volume = SumVolume(objs, cluster.keywords),
          !.avg_search_volume = <<SumVolume(objs, cluster.keywords), Len(cluster.keywords)>>,
          !.primary_keyword = cluster.keywords[1]]
\* KeywordCluster._update_aggregations
update_aggregations(objs, cluster) ==
  IF cluster.keywords = <<>> THEN cluster
  ELSE [cluster EXCEPT
          !.total_search_volume = SumVolume(objs, cluster.keywords),
          !.avg_search_volume = <<SumVolume(objs, cluster.keywords), Len(cluster.keywords)>>,
          !.dominant_intent =
             IF \E j \in 1..Len(cluster.keywords) : objs[cluster.keywords[j]].intent # None
             THEN ModeIntent(objs, cluster.keywords) ELSE @,
          !.primary_keyword = MaxVolumeMember(objs, cluster.keywords)]

\* add_keyword that leaves the keyword's cluster_id alone
add_keyword_unassigned(objs, cluster, k) ==
  [kws |-> objs,
   cluster |-> update_aggregations(objs, [cluster EXCEPT !.keywords = Append(@, k)])]
\* KeywordCluster.add_keyword; the result holds the objects and the cluster
add_keyword(objs, cluster, k) ==
  LET objs2 == [objs EXCEPT ![k].cluster_id = cluster.id]
  IN  [kws |-> objs2,
       cluster |-> update_aggregations(objs2, [cluster EXCEPT !.keywords = Append(@, k)])]

RECURSIVE AddAll(_, _, _)
AddAll(objs, cluster, members) ==
  IF members = <<>> THEN [kws |-> objs, cluster |-> cluster]
  ELSE LET r == add_keyword(objs, cluster, Head(members))
       IN  AddAll(r.kws, r.cluster, Tail(members))

\* sum of the member embeddings; the mean is this vector divided by their number
RECURSIVE SumEmbeddings(_, _)
SumEmbeddings(objs, members) ==
  IF members = <<>> THEN <<0, 0>>
  ELSE LET e == objs[Head(members)].embedding
           r == SumEmbeddings(objs, Tail(members))
       IN  <<e[1] + r[1], e[2] + r[2]>>

\* _create_cluster; centroid is <<>> or <<sum vector, number of members>>
create_cluster(objs, id, members, with_embeddings) ==
  LET r == AddAll(objs, NewCluster(id), members)
  IN  [kws |-> r.kws,
       cluster |-> IF with_embeddings /\ members # <<>>
                   THEN [r.cluster EXCEPT
                           !.centroid = <<SumEmbeddings(objs, members), Len(members)>>]
                   ELSE r.cluster]

\* result.sort(key=lambda c: c.total_search_volume, reverse=True): stable
RECURSIVE InsertByVolume(_, _)
InsertByVolume(sorted, c) ==
  IF sorted = <<>> THEN <<c>>
  ELSE IF Head(sorted).total_search_volume >= c.total_search_volume
       THEN <<Head(sorted)>> \o InsertByVolume(Tail(sorted), c)
       ELSE <<c>> \o sorted
RECURSIVE SortByVolume(_)
SortByVolume(cs) ==
  IF cs = <<>> THEN <<>>
  ELSE InsertByVolume(SortByVolume(SubSeq(cs, 1, Len(cs) - 1)), cs[Len(cs)])

\* the labels in the order in which the loop of _build_clusters meets them
RECURSIVE LabelOrder(_, _)
LabelOrder(labels, j) ==
  IF j > Len(labels) THEN <<>>
  ELSE IF \E l \in 1..(j - 1) : labels[l] = labels[j]
       THEN LabelOrder(labels, j + 1)
       ELSE <<labels[j]>> \o LabelOrder(labels, j + 1)

\* the second loop of _build_clusters; self_min is self.config.min_cluster_size
RECURSIVE BuildLoop(_, _, _, _, _, _)
BuildLoop(objs, keywords, labels, self_min, order, result) ==
  IF order = <<>> THEN [kws |-> objs, clusters |-> result]
  ELSE LET positions == SelectSeq([j \in 1..Len(keywords) |-> j],
                                  LAMBDA j : labels[j] = Head(order))
           kwl == [j \in 1..Len(positions) |-> keywords[positions[j]]]
       IN  IF Len(kwl) >= self_min
           THEN LET r == create_cluster(objs, Len(result) + 1, kwl, TRUE)
                IN  BuildLoop(r.kws, keywords, labels, self_min, Tail(order),
                              Append(result, r.cluster))
           ELSE BuildLoop([i \in 1..Len(objs) |->
                             IF \E j \in 1..Len(kwl) : kwl[j] = i
                             THEN [objs[i] EXCEPT !.cluster_id = 0] ELSE objs[i]],
                          keywords, labels, self_min, Tail(order), result)

build_clusters(objs, keywords, labels, self_min) ==
  LET r == BuildLoop(objs, keywords, labels, self_min, LabelOrder(labels, 1), <<>>)
  IN  [kws |-> r.kws, clusters |-> SortByVolume(r.clusters)]

\* what AgglomerativeClustering.fit_predict may return for n samples, up to the
\* names of the labels (_build_clusters groups by label and keeps the order of
\* first occurrence): every partition of the samples, labelled 0, 1, .. in that order
Labelings(n) ==
  {l \in [1..n -> 0..(n - 1)] :
     \A j \in 1..n : \/ l[j] = 0
                      \/ \E i \in 1..(j - 1) : l[i] = l[j] - 1}

HasEmbedding(objs, keywords) == SelectSeq(keywords, LAMBDA k : objs[k].embedding # <<>>)

\* cluster_keywords(keywords, config); config_min is config.min_cluster_size,
\* self_min is self.config.min_cluster_size, labels what _perform_clustering returns
cluster_keywords(objs, keywords, config_min, self_min, labels) ==
  LET keywords_with_embeddings == HasEmbedding(objs, keywords)
  IN  IF Len(keywords_with_embeddings) < config_min
      THEN IF keywords_with_embeddings # <<>>
           THEN LET r == create_cluster(objs, 1, keywords_with_embeddings, FALSE)
                IN  [kws |-> r.kws, clusters |-> <<r.cluster>>]
           ELSE [kws |-> objs, clusters |-> <<>>]
      ELSE build_clusters(objs, keywords_with_embeddings, labels, self_min)

\* ---- classify_batch as a function of what the LLM call does -------------------
\* outcome.exc # "none": _llm_classify raises (after its retries); otherwise
\* llm_client.complete returns outcome.response
\* second pass of classify_batch; r is what _rule_based_classify returned
second_pass(r, with_llm, outcome) ==
  IF r.ambiguous # <<>> /\ with_llm
  THEN IF outcome.exc # "none"
       THEN [kws |-> BatchFallback(r.kws, r.ambiguous),
             classified |-> r.classified \o r.ambiguous]
       ELSE LET l == llm_classify(r.kws, r.ambiguous, outcome.response)
            IN  [kws |-> IF l.exc = "none" THEN l.kws
                         ELSE BatchFallback(l.kws, r.ambiguous),
                 classified |-> r.classified \o r.ambiguous]
  ELSE [kws |-> r.kws, classified |-> r.classified \o r.ambiguous]

classify_batch(objs, kwlist, with_llm, outcome) ==
  second_pass(rule_based_classify(objs, kwlist), with_llm, outcome)

\* ---- embedding service --------------------------------------------------------
NoException == [type |-> "none", message |-> ""]

\* EmbeddingService.generate_embeddings(keywords); outcome is what
\* provider.generate_embeddings does: raise outcome.exc or return outcome.embeddings.
\* The variant swallows the provider's exception and returns the keywords unembedded.
generate_embeddings_silent(objs, kwlist, outcome) ==
  LET to_embed == SelectSeq(kwlist, LAMBDA k : objs[k].embedding = <<>>)
      already_embedded == SelectSeq(kwlist, LAMBDA k : objs[k].embedding # <<>>)
  IN  IF to_embed = <<>> \/ outcome.exc.type # "none"
      THEN [kws |-> objs, keywords |-> kwlist, exc |-> NoException]
      ELSE [kws |-> [i \in 1..Len(objs) |->
                       IF \E j \in 1..Len(to_embed) : to_embed[j] = i /\ j <= Len(outcome.embeddings)
                       THEN [objs[i] EXCEPT !.embedding =
                               outcome.embeddings[CHOOSE j \in 1..Len(to_embed) : to_embed[j] = i]]
                       ELSE objs[i]],
            keywords |-> already_embedded \o to_embed,
            exc |-> NoException]
generate_embeddings(objs, kwlist, outcome) ==
  LET to_embed == SelectSeq(kwlist, LAMBDA k : objs[k].embedding = <<>>)
      already_embedded == SelectSeq(kwlist, LAMBDA k : objs[k].embedding # <<>>)
  IN  IF to_embed = <<>> THEN [kws |-> objs, keywords |-> kwlist, exc |-> NoException]
      ELSE IF outcome.exc.type # "none"
      THEN [kws |-> objs, keywords |-> kwlist, exc |-> outcome.exc]
      ELSE [kws |-> [i \in 1..Len(objs) |->
                       IF \E j \in 1..Len(to_embed) : to_embed[j] = i /\ j <= Len(outcome.embeddings)
                       THEN [objs[i] EXCEPT !.embedding =
                               outcome.embeddings[CHOOSE j \in 1..Len(to_embed) : to_embed[j] = i]]
                       ELSE objs[i]],
            keywords |-> already_embedded \o to_embed,
            exc |-> NoException]

\* ---- agent --------------------------------------------------------------------
MAX_EXECUTION_TIME == 120

\* SimilarityDeduplicator(similarity_threshold=0.9)
SIMILARITY_THRESHOLD == <<9, 10>>

\* Python values of the locals clusters and orphan_keywords
PyNone == [type |-> "NoneType", value |-> <<>>]
PyList(items) == [type |-> "list", value |-> items]
PyCluster(c) == [type |-> "KeywordCluster", value |-> c]

\* _check_timeout: the exception raised, if any
check_timeout(t, stage) ==
  IF t > MAX_EXECUTION_TIME
  THEN [type |-> "TimeoutError", message |-> "Execution exceeded 120s limit " \o stage]
  ELSE NoException

NoResult ==
  [status |-> "none", keywords |-> <<>>, clusters |-> <<>>,
   error |-> [tag |-> "", text |-> ""], note |-> ""]

\* the two except clauses of analyze
Failed(e) ==
  [NoResult EXCEPT !.status = "failed",
                   !.error = IF e.type = "TimeoutError"
                             THEN [tag |-> "Timeout: ", text |-> e.message]
                             ELSE [tag |-> "", text |-> e.message]]

Completed(all_keywords, cs) ==
  [NoResult EXCEPT !.status = "completed", !.keywords = all_keywords, !.clusters = cs]

\* clusters, orphan_keywords = <list>, taken as if the service returned the pair
\* (clusters, orphans) that analyze expects
UnpackAsPair(list) ==
  [exc |-> NoException, first |-> PyList(list), second |-> PyList(<<>>)]
\* clusters, orphan_keywords = <list>: the list of clusters itself is unpacked
Unpack(list) ==
  IF Len(list) < 2
  THEN [exc |-> [type |-> "ValueError", message |-> "not enough values to unpack"],
        first |-> PyNone, second |-> PyNone]
  ELSE IF Len(list) > 2
  THEN [exc |-> [type |-> "ValueError", message |-> "too many values to unpack"],
        first |-> PyNone, second |-> PyNone]
  ELSE [exc |-> NoException, first |-> PyCluster(list[1]), second |-> PyCluster(list[2])]

\* for cluster in clusters: all_keywords.extend(cluster.keywords)
RECURSIVE ExtendAll(_)
ExtendAll(cs) == IF cs = <<>> THEN <<>> ELSE Head(cs).keywords \o ExtendAll(Tail(cs))

\* lines 161-165 of analyze: the combined list, or the TypeError of iterating
\* an object that is not iterable
Combine(cs, orphans) ==
  IF cs.type # "list" \/ orphans.type # "list"
  THEN [exc |-> [type |-> "TypeError", message |-> "object is not iterable"],
        all_keywords |-> <<>>]
  ELSE [exc |-> NoException, all_keywords |-> ExtendAll(cs.value) \o orphans.value]

\* save_keywords + save_clusters, upsert_keywords + upsert_clusters: idempotent
Save(store, objs, all_keywords, cs) ==
  [keywords |-> store.keywords \cup {objs[all_keywords[j]].text : j \in 1..Len(all_keywords)},
   clusters |-> store.clusters \cup {cs[j].id : j \in 1..Len(cs)}]

EmptyStore == [keywords |-> {}, clusters |-> {}]

\* ---- forecaster -----------------------------------------------------------------
\* Floats are fixed-point numbers: an integer x stands for x / FP. Divisions round
\* down (\div), so every operator below is monotone in its numerators.
FP == 1000

Max(a, b) == IF a >= b THEN a ELSE b
Min(a, b) == IF a <= b THEN a ELSE b

RECURSIVE Sum(_)
Sum(xs) == IF xs = <<>> THEN 0 ELSE Head(xs) + Sum(Tail(xs))

\* x ** 0.5, rounded down
RECURSIVE ISqrt(_)
ISqrt(x) ==
  IF x < 2 THEN x
  ELSE LET s == 2 * ISqrt(x \div 4)
       IN  IF (s + 1) * (s + 1) <= x THEN s + 1 ELSE s

\* round(x, ndigits) for ndigits <= 3, in units of 10^-ndigits; halves go up
Round(x, ndigits) ==
  LET q == CASE ndigits = 3 -> 1 [] ndigits = 2 -> 10 [] ndigits = 1 -> 100 [] OTHER -> 1000
  IN  (2 * x + q) \div (2 * q)

Fixed(values) == [i \in 1..Len(values) |-> FP * values[i]]

\* statistics.mean of fixed-point numbers
Mean(xs) == Sum(xs) \div Len(xs)

Squares(xs, c) == [i \in 1..Len(xs) |-> (xs[i] - c) * (xs[i] - c)]

\* statistics.stdev (the sample standard deviation) of fixed-point numbers
Stdev(xs) == ISqrt(Sum(Squares(xs, Mean(xs))) \div (Len(xs) - 1))

\* _moving_average_forecast(values, days_ahead)
moving_average_forecast(config, values, days_ahead) ==
  LET window == Min(config.ma_window, Len(values))
      recent_values == SubSeq(Fixed(values), Len(values) - window + 1, Len(values))
      ma == Mean(recent_values)
      stdev == IF Len(recent_values) > 1 THEN Stdev(recent_values) ELSE 0
      confidence == Max(500, 900 - 5 * days_ahead)
      interval == (((196 * stdev) \div 100) * (100 + days_ahead)) \div 100
      lower == ma - interval
      upper == ma + interval
  IN  [predicted |-> ma, lower |-> Max(0, lower), upper |-> upper, confidence |-> confidence]

\* 2 * (x[i] - x_mean) for the i-th value (i from 1), x = 0..n-1
TwiceCentered(n, i) == 2 * (i - 1) - (n - 1)

\* slope = SlopeNum / SlopeDen, exactly
SlopeNum(values) ==
  LET n == Len(values)
  IN  2 * Sum([i \in 1..n |-> TwiceCentered(n, i) * (n * values[i] - Sum(values))])
SlopeDen(values) ==
  LET n == Len(values)
  IN  n * Sum([i \in 1..n |-> TwiceCentered(n, i) * TwiceCentered(n, i)])

\* intercept + slope * x, as a fixed-point number
Fit(values, x) ==
  LET n == Len(values)
  IN  (FP * (2 * SlopeDen(values) * Sum(values) + n * SlopeNum(values) * (2 * x - n + 1)))
        \div (2 * n * SlopeDen(values))

\* _linear_trend_forecast(values, days_ahead)
linear_trend_forecast(values, days_ahead) ==
  LET n == Len(values)
      y_mean == Mean(Fixed(values))
  IN  IF SlopeDen(values) = 0
      THEN [predicted |-> y_mean, lower |-> (y_mean * 8) \div 10,
            upper |-> (y_mean * 12) \div 10, confidence |-> 500]
      ELSE LET future_x == n + days_ahead - 1
               predicted == Fit(values, future_x)
               residuals == [i \in 1..n |-> FP * values[i] - Fit(values, i - 1)]
               rse == IF Len(residuals) > 1 THEN Stdev(residuals) ELSE 0
               interval == (((196 * rse) \div 100) * (100 + 2 * days_ahead)) \div 100
               ss_res == Sum(Squares(residuals, 0)) \div FP
               ss_tot == Sum(Squares(Fixed(values), y_mean)) \div FP
               r_squared == IF ss_tot > 0 THEN FP - (FP * ss_res) \div ss_tot ELSE 0
               confidence == Max(400, Min(950, (r_squared * 8) \div 10)) - 3 * days_ahead
           IN  [predicted |-> predicted, lower |-> Max(0, predicted - interval),
                upper |-> predicted + interval, confidence |-> Max(300, confidence)]

\* the EMA loop of _weighted_average_forecast, alpha = 0.3
RECURSIVE Ema(_, _)
Ema(values, i) ==
  IF i = 1 THEN FP * values[1]
  ELSE (3 * FP * values[i] + 7 * Ema(values, i - 1)) \div 10

\* a weighted average whose confidence grows with the day offset
weighted_average_forecast_growing(values, days_ahead) ==
  LET n == Len(values)
      ema == Ema(values, n)
      variance == Sum(Squares(Fixed(values), ema)) \div n
      stdev == ISqrt(variance)
      confidence == Min(850, 500 + 4 * days_ahead)
      interval == (((196 * stdev) \div 100) * (1000 + 15 * days_ahead)) \div 1000
  IN  [predicted |-> ema, lower |-> Max(0, ema - interval), upper |-> ema + interval,
       confidence |-> confidence]

\* _weighted_average_forecast(values, days_ahead)
weighted_average_forecast(values, days_ahead) ==
  LET n == Len(values)
      ema == Ema(values, n)
      variance == Sum(Squares(Fixed(values), ema)) \div n
      stdev == ISqrt(variance)
      confidence == Max(500, 850 - 4 * days_ahead)
      interval == (((196 * stdev) \div 100) * (1000 + 15 * days_ahead)) \div 1000
  IN  [predicted |-> ema, lower |-> Max(0, ema - interval), upper |-> ema + interval,
       confidence |-> confidence]

\* _ensemble_forecast(values, days_ahead)
ensemble_forecast(config, values, days_ahead) ==
  LET ma == moving_average_forecast(config, values, days_ahead)
      lr == linear_trend_forecast(values, days_ahead)
      wa == weighted_average_forecast(values, days_ahead)
      conf_sum == ma.confidence + lr.confidence + wa.confidence
      total_conf == IF conf_sum = 0 THEN FP ELSE conf_sum
      predicted == (ma.confidence * ma.predicted + lr.confidence * lr.predicted
                      + wa.confidence * wa.predicted) \div total_conf
      lower == (ma.confidence * ma.lower + lr.confidence * lr.lower
                  + wa.confidence * wa.lower) \div total_conf
      upper == (ma.confidence * ma.upper + lr.confidence * lr.upper
                  + wa.confidence * wa.upper) \div total_conf
      confidence == Min(950, conf_sum \div 3 + 50)
  IN  [predicted |-> predicted, lower |-> Max(0, lower), upper |-> upper,
       confidence |-> confidence]

\* forecast_func of forecast
forecast_func(config, values, day) ==
  IF config.use_ensemble THEN ensemble_forecast(config, values, day)
  ELSE moving_average_forecast(config, values, day)

\* ForecastPoint(...): values in hundredths, confidence in thousandths
ForecastPoint(day, f) ==
  [day |-> day,
   predicted_value |-> Round(f.predicted, 2),
   lower_bound |-> Round(f.lower, 2),
   upper_bound |-> Round(f.upper, 2),
   confidence |-> Round(f.confidence, 3)]

\* _calculate_trend(values): direction, and strength in thousandths (the ratio is
\* taken with one more digit and rounded to the third)
calculate_trend(values) ==
  IF Len(values) < 7 THEN [direction |-> "stable", strength |-> 0]
  ELSE LET mid == Len(values) \div 2
           first == SubSeq(values, 1, mid)
           second == SubSeq(values, mid + 1, Len(values))
           \* change_ratio = num / den, den > 0
           num == Sum(second) * Len(first) - Sum(first) * Len(second)
           den == Sum(first) * Len(second)
           abs == IF num < 0 THEN 0 - num ELSE num
       IN  IF Sum(first) = 0 THEN [direction |-> "stable", strength |-> 0]
           ELSE [direction |-> IF 100 * num > 5 * den THEN "increasing"
                               ELSE IF 100 * num < 0 - 5 * den THEN "decreasing"
                               ELSE "stable",
                 strength |-> Min(FP, Round((20 * FP * abs) \div den, 2))]

SeqMax(xs) == CHOOSE m \in {xs[i] : i \in 1..Len(xs)} : \A i \in 1..Len(xs) : xs[i] <= m

\* horizon_forecasts.get(h, daily_forecasts[h - 1] if len(daily_forecasts) >= h
\* else daily_forecasts[-1])
HorizonForecast(daily, horizons, h) ==
  IF (\E j \in 1..Len(horizons) : horizons[j] = h) \/ Len(daily) >= h
  THEN daily[h] ELSE daily[Len(daily)]

NoForecast == [returned |-> FALSE]

\* ---- health score ----------------------------------------------------------------
\* Anomaly.is_negative
is_negative(anomaly) == anomaly.anomaly_type \in {"sudden_drop", "gradual_decline"}

\* the penalty of one anomaly in the traffic loop
TrafficPenalty(anomaly) ==
  IF anomaly.metric_type # "organic_traffic" THEN 0
  ELSE CASE anomaly.severity = "critical" -> 30
         [] anomaly.severity = "high" -> 20
         [] anomaly.severity = "medium" -> 10
         [] OTHER -> 5

RankingPenalty(anomaly) ==
  IF anomaly.metric_type = "keyword_ranking" /\ is_negative(anomaly) THEN 15 ELSE 0

EngagementPenalty(anomaly) ==
  IF anomaly.metric_type \in {"ctr", "bounce_rate"} /\ is_negative(anomaly) THEN 10 ELSE 0

Volatility(anomaly) == IF anomaly.anomaly_type = "volatility" THEN 1 ELSE 0

SumOver(Op(_), xs) == Sum([i \in 1..Len(xs) |-> Op(xs[i])])

\* HealthScore(...): every score is declared Field(ge=0, le=100); scores in tenths
HealthScore(overall, traffic_health, ranking_health, engagement_health, stability_score) ==
  LET fields == <<overall, traffic_health, ranking_health, engagement_health, stability_score>>
  IN  [exc |-> IF \A i \in 1..Len(fields) : 0 <= fields[i] /\ fields[i] <= 1000
               THEN "none" ELSE "ValidationError",
       overall |-> overall,
       traffic_health |-> traffic_health,
       ranking_health |-> ranking_health,
       engagement_health |-> engagement_health,
       stability_score |-> stability_score]

\* _calculate_health_score(task, anomalies, forecasts)
calculate_health_score(anomalies, forecasts) ==
  LET traffic_penalty == SumOver(TrafficPenalty, anomalies)
      floored == Max(0, 100 - traffic_penalty)
      ranking_health == Max(0, 100 - SumOver(RankingPenalty, anomalies))
      engagement_health == Max(0, 100 - SumOver(EngagementPenalty, anomalies))
      volatility_count == SumOver(Volatility, anomalies)
      stability_score == Max(0, 100 - volatility_count * 20)
      traffic_health ==
        IF \E i \in 1..Len(forecasts) :
              /\ forecasts[i].trend_direction = "decreasing"
              /\ forecasts[i].trend_strength > 300
        THEN floored - 10 ELSE floored
      \* the weights 0.4, 0.3, 0.2, 0.1, as a fixed-point number
      overall == 400 * traffic_health + 300 * ranking_health
                   + 200 * engagement_health + 100 * stability_score
  IN  HealthScore(Round(overall, 1), Round(FP * traffic_health, 1),
                  Round(FP * ranking_health, 1), Round(FP * engagement_health, 1),
                  Round(FP * stability_score, 1))

NoHealthScore == HealthScore(0, 0, 0, 0, 0)

\* ---- merging clusters ---------------------------------------------------------
Dot(a, b) == a[1] * b[1] + a[2] * b[2]

\* calculate_cluster_similarity(cluster1, cluster2) >= threshold, for a positive
\* threshold: the cosine of the centroids, which is that of the summed vectors;
\* a cluster without centroid, or a zero centroid, gives similarity 0
SimilarityAtLeast(cluster1, cluster2, threshold) ==
  IF cluster1.centroid = <<>> \/ cluster2.centroid = <<>> THEN FALSE
  ELSE LET a == cluster1.centroid[1]
           b == cluster2.centroid[1]
       IN  /\ Dot(a, a) > 0
           /\ Dot(b, b) > 0
           /\ Dot(a, b) >= 0
           /\ threshold[2] * threshold[2] * Dot(a, b) * Dot(a, b)
                >= threshold[1] * threshold[1] * Dot(a, a) * Dot(b, b)

\* the inner loop of merge_clusters over the clusters after the i-th
RECURSIVE MergeInner(_, _, _, _, _)
MergeInner(clusters_in, i, j, threshold, st) ==
  IF j > Len(clusters_in) THEN st
  ELSE IF j \in st.used THEN MergeInner(clusters_in, i, j + 1, threshold, st)
  ELSE IF SimilarityAtLeast(clusters_in[i], clusters_in[j], threshold)
       THEN LET r == AddAll(st.kws, st.merged_cluster, clusters_in[j].keywords)
            IN  MergeInner(clusters_in, i, j + 1, threshold,
                           [kws |-> r.kws, merged_cluster |-> r.cluster,
                            used |-> st.used \cup {j}])
       ELSE MergeInner(clusters_in, i, j + 1, threshold, st)

\* the outer loop of merge_clusters
RECURSIVE MergeOuter(_, _, _, _, _, _)
MergeOuter(objs, clusters_in, i, threshold, used, merged) ==
  IF i > Len(clusters_in) THEN [kws |-> objs, clusters |-> merged]
  ELSE IF i \in used THEN MergeOuter(objs, clusters_in, i + 1, threshold, used, merged)
  ELSE LET copy == [NewCluster(clusters_in[i].id) EXCEPT
                      !.keywords = clusters_in[i].keywords,
                      !.centroid = clusters_in[i].centroid]
           st == MergeInner(clusters_in, i, i + 1, threshold,
                            [kws |-> objs, merged_cluster |-> copy, used |-> used])
       IN  MergeOuter(st.kws, clusters_in, i + 1, threshold, st.used,
                      Append(merged, update_aggregations(st.kws, st.merged_cluster)))

\* merge_clusters(clusters, similarity_threshold)
merge_clusters(objs, clusters_in, threshold) ==
  IF Len(clusters_in) <= 1 THEN [kws |-> objs, clusters |-> clusters_in]
  ELSE MergeOuter(objs, clusters_in, 1, threshold, {}, <<>>)

\* ---- time series store -----------------------------------------------------------
\* sorted(existing, key=lambda p: p.date): stable, ascending
RECURSIVE InsertByDate(_, _)
InsertByDate(sorted, p) ==
  IF sorted = <<>> THEN <<p>>
  ELSE IF Head(sorted).date <= p.date
       THEN <<Head(sorted)>> \o InsertByDate(Tail(sorted), p)
       ELSE <<p>> \o sorted
RECURSIVE SortByDate(_)
SortByDate(ps) ==
  IF ps = <<>> THEN <<>>
  ELSE InsertByDate(SortByDate(SubSeq(ps, 1, Len(ps) - 1)), ps[Len(ps)])

\* store_time_series: what the key of the data holds after the call
store_time_series(existing, data_points) ==
  LET existing_dates == {existing[i].date : i \in 1..Len(existing)}
      new_points == SelectSeq(data_points, LAMBDA p : p.date \notin existing_dates)
  IN  SortByDate(existing \o new_points)

\* ---- anomaly detector --------------------------------------------------------------
\* AnomalyConfig(): the defaults; thresholds and percentages are rationals
DefaultAnomalyConfig ==
  [low_threshold |-> <<3, 2>>, medium_threshold |-> <<2, 1>>,
   high_threshold |-> <<5, 2>>, critical_threshold |-> <<3, 1>>,
   iqr_multiplier |-> <<3, 2>>, min_data_points |-> 7,
   baseline_window_days |-> 30, min_change_percent |-> <<5, 1>>]

\* abs_z_score >= threshold, with abs_z_score given by its square
AbsAtLeast(abs_z_sq, threshold) ==
  \/ threshold[1] <= 0
  \/ abs_z_sq[1] * threshold[2] * threshold[2] >= threshold[1] * threshold[1] * abs_z_sq[2]

\* _calculate_severity with the tiers of critical and medium exchanged
calculate_severity_exchanged(anomaly, abs_z_sq) ==
  IF AbsAtLeast(abs_z_sq, anomaly.critical_threshold) THEN "medium"
  ELSE IF AbsAtLeast(abs_z_sq, anomaly.high_threshold) THEN "high"
  ELSE IF AbsAtLeast(abs_z_sq, anomaly.medium_threshold) THEN "critical"
  ELSE IF AbsAtLeast(abs_z_sq, anomaly.low_threshold) THEN "low"
  ELSE None
\* AnomalyDetector._calculate_severity; anomaly is self.config.anomaly
calculate_severity(anomaly, abs_z_sq) ==
  IF AbsAtLeast(abs_z_sq, anomaly.critical_threshold) THEN "critical"
  ELSE IF AbsAtLeast(abs_z_sq, anomaly.high_threshold) THEN "high"
  ELSE IF AbsAtLeast(abs_z_sq, anomaly.medium_threshold) THEN "medium"
  ELSE IF AbsAtLeast(abs_z_sq, anomaly.low_threshold) THEN "low"
  ELSE None

SumOfSquares(values) == Sum([i \in 1..Len(values) |-> values[i] * values[i]])
\* n * (n - 1) times the sample variance
ScaledVariance(values) == Len(values) * SumOfSquares(values) - Sum(values) * Sum(values)
\* stdev > 0, with stdev 0 for a single value
PositiveStdev(values) == Len(values) > 1 /\ ScaledVariance(values) > 0
\* n * (value - mean)
ScaledDifference(values, value) == Len(values) * value - Sum(values)
\* the square of z_score = (value - mean) / stdev if stdev > 0 else 0
z_score_sq(values, value) ==
  IF PositiveStdev(values)
  THEN <<ScaledDifference(values, value) * ScaledDifference(values, value)
            * (Len(values) - 1),
         Len(values) * ScaledVariance(values)>>
  ELSE <<0, 1>>

\* sorted(values)
RECURSIVE InsertValue(_, _)
InsertValue(sorted, v) ==
  IF sorted = <<>> THEN <<v>>
  ELSE IF Head(sorted) <= v THEN <<Head(sorted)>> \o InsertValue(Tail(sorted), v)
       ELSE <<v>> \o sorted
RECURSIVE SortValues(_)
SortValues(values) ==
  IF values = <<>> THEN <<>>
  ELSE InsertValue(SortValues(Tail(values)), Head(values))

Quartile1(values) == SortValues(values)[Len(values) \div 4 + 1]
Quartile3(values) == SortValues(values)[(3 * Len(values)) \div 4 + 1]
\* value < lower_bound or value > upper_bound
is_iqr_outlier(anomaly, values, value) ==
  LET q1 == Quartile1(values)
      q3 == Quartile3(values)
      m == anomaly.iqr_multiplier
  IN  \/ m[2] * value < m[2] * q1 - m[1] * (q3 - q1)
      \/ m[2] * value > m[2] * q3 + m[1] * (q3 - q1)

Abs(x) == IF x < 0 THEN 0 - x ELSE x

\* a filter that lets every change pass
TooSmallNever(anomaly, values, value) == FALSE
\* abs(deviation_percent) < min_change_percent, with
\* deviation_percent = (value - mean) / mean * 100 if mean > 0 else 0
TooSmall(anomaly, values, value) ==
  LET m == anomaly.min_change_percent
  IN  IF Sum(values) > 0
      THEN Abs(ScaledDifference(values, value)) * 100 * m[2] < m[1] * Sum(values)
      ELSE 0 < m[1]

\* round(deviation_percent, 2), in hundredths; halves go up
RoundedDeviation(values, value) ==
  IF Sum(values) > 0
  THEN (2 * ScaledDifference(values, value) * 10000 + Sum(values)) \div (2 * Sum(values))
  ELSE 0

\* AnomalyDetector._calculate_trend, as a rational
detector_calculate_trend(values) ==
  IF Len(values) < 2 THEN <<0, 1>>
  ELSE LET half == Len(values) \div 2
           first == SubSeq(values, 1, half)
           second == SubSeq(values, half + 1, Len(values))
       IN  IF Sum(first) = 0 THEN <<0, 1>>
           ELSE <<Sum(second) * Len(first) - Sum(first) * Len(second),
                  Sum(first) * Len(second)>>

\* historical_values[-7:]
LastSeven(values) == SubSeq(values, Max(1, Len(values) - 6), Len(values))

\* _determine_anomaly_type(current_value, mean, z_score, historical_values), with
\* mean that of values
determine_anomaly_type(current_value, values, historical_values) ==
  LET recent_trend == IF Len(historical_values) >= 3
                      THEN detector_calculate_trend(LastSeven(historical_values))
                      ELSE <<0, 1>>
      is_decline == ScaledDifference(values, current_value) < 0
      is_gradual == Abs(recent_trend[1]) * 50 > Abs(recent_trend[2])
  IN  IF is_decline
      THEN IF is_gradual THEN "gradual_decline" ELSE "sudden_drop"
      ELSE IF is_gradual THEN "gradual_increase" ELSE "sudden_spike"

\* _generate_hypotheses: the descriptions of the hypotheses, in order
generate_hypotheses(metric_type, anomaly_type) ==
  LET negative == anomaly_type \in {"sudden_drop", "gradual_decline"}
  IN  CASE metric_type = "organic_traffic" /\ negative ->
             <<"Google algorithm update may have affected rankings",
               "Technical issue may be blocking crawling/indexing",
               "Seasonal or market trend change">>
        [] metric_type = "organic_traffic" /\ ~negative ->
             <<"Content or SEO improvement is gaining traction">>
        [] metric_type = "keyword_ranking" /\ negative ->
             <<"Competitor content may have improved",
               "Search intent may have shifted">>
        [] metric_type = "ctr" /\ negative ->
             <<"Title/description may need optimization",
               "SERP features may be reducing clicks">>
        [] OTHER -> <<>>

\* one iteration of the loop of detect, for the value at position p: the
\* anomalies it appends
DetectPoint(anomaly, values, metric_type, sensitivity, p) ==
  LET value == values[p]
      z_sq == z_score_sq(values, value)
      severity == calculate_severity(anomaly, z_sq)
  IN  IF severity # None
         /\ (AbsAtLeast(z_sq, sensitivity) \/ is_iqr_outlier(anomaly, values, value))
         /\ ~TooSmall(anomaly, values, value)
      THEN LET anomaly_type ==
                 determine_anomaly_type(value, values, SubSeq(values, 1, p - 1))
           IN  << [metric_type |-> metric_type,
                   anomaly_type |-> anomaly_type,
                   severity |-> severity,
                   current_value |-> value,
                   expected_value |-> <<Sum(values), Len(values)>>,
                   deviation_percent |-> RoundedDeviation(values, value),
                   hypotheses |-> generate_hypotheses(metric_type, anomaly_type)] >>
      ELSE <<>>

RECURSIVE DetectLoop(_, _, _, _, _)
DetectLoop(anomaly, values, metric_type, sensitivity, p) ==
  IF p > Len(values) THEN <<>>
  ELSE DetectPoint(anomaly, values, metric_type, sensitivity, p)
         \o DetectLoop(anomaly, values, metric_type, sensitivity, p + 1)

\* AnomalyDetector.detect(time_series, sensitivity)
detect(anomaly, values, metric_type, sensitivity) ==
  IF Len(values) < anomaly.min_data_points THEN <<>>
  ELSE LET recent_window == Min(7, Len(values))
       IN  DetectLoop(anomaly, values, metric_type, sensitivity,
                      Len(values) - recent_window + 1)

\* ---- time series store: the nested defaultdicts and the reads ----------------------
\* self._data[site_url][metric_type][dimension]: indexing the nested defaultdict
\* creates the entry, with an empty list, when it is missing
Touch(data, key) ==
  [k \in DOMAIN data \cup {key} |-> IF k \in DOMAIN data THEN data[k] ELSE <<>>]

\* self._rankings[site_url]: the same for the rankings of a site
TouchSite(rankings, site_url) ==
  [s \in DOMAIN rankings \cup {site_url} |->
     IF s \in DOMAIN rankings THEN rankings[s] ELSE [keyword \in {} |-> <<>>]]

\* date_range.start_date <= p.date <= date_range.end_date
InDateRange(date_range, p) ==
  date_range.start_date <= p.date /\ p.date <= date_range.end_date

\* get_time_series: None, or the TimeSeriesData of the points in the range
get_time_series(data, key, date_range) ==
  LET all_points == Touch(data, key)[key]
      filtered == SelectSeq(all_points, LAMBDA p : InDateRange(date_range, p))
  IN  IF all_points = <<>> \/ filtered = <<>> THEN None
      ELSE [metric_type |-> key[2], dimension |-> key[3], data_points |-> filtered,
            start_date |-> date_range.start_date, end_date |-> date_range.end_date]

\* sorted(all_points, key=lambda p: p.date, reverse=True): stable, descending
RECURSIVE InsertByDateDescending(_, _)
InsertByDateDescending(sorted, p) ==
  IF sorted = <<>> THEN <<p>>
  ELSE IF Head(sorted).date >= p.date
       THEN <<Head(sorted)>> \o InsertByDateDescending(Tail(sorted), p)
       ELSE <<p>> \o sorted
RECURSIVE SortByDateDescending(_)
SortByDateDescending(ps) ==
  IF ps = <<>> THEN <<>>
  ELSE InsertByDateDescending(SortByDateDescending(SubSeq(ps, 1, Len(ps) - 1)), ps[Len(ps)])

\* get_baseline_stats: None, or the statistics of the latest baseline_days points;
\* mean and variance (the square of stdev) are rationals
get_baseline_stats(data, key, baseline_days) ==
  LET all_points == Touch(data, key)[key]
      sorted_points == SortByDateDescending(all_points)
      baseline_points == SubSeq(sorted_points, 1, Min(baseline_days, Len(sorted_points)))
      values == [i \in 1..Len(baseline_points) |-> baseline_points[i].value]
  IN  IF all_points = <<>> \/ Len(baseline_points) < 3 THEN None
      ELSE [mean |-> <<Sum(values), Len(values)>>,
            variance |-> <<ScaledVariance(values), Len(values) * (Len(values) - 1)>>,
            min |-> CHOOSE v \in {values[i] : i \in 1..Len(values)} :
                       \A i \in 1..Len(values) : v <= values[i],
            max |-> SeqMax(values),
            count |-> Len(values)]

\* the loop of store_keyword_rankings, then the sort of every keyword of the site
RECURSIVE StoreRankingsLoop(_, _, _)
StoreRankingsLoop(of_site, rankings, i) ==
  IF i > Len(rankings) THEN [keyword \in DOMAIN of_site |-> SortByDate(of_site[keyword])]
  ELSE LET ranking == rankings[i]
           touched == Touch(of_site, ranking.keyword)
           existing == touched[ranking.keyword]
           existing_dates == {existing[j].date : j \in 1..Len(existing)}
       IN  StoreRankingsLoop(
             IF ranking.date \notin existing_dates
             THEN [touched EXCEPT ![ranking.keyword] = Append(existing, ranking)]
             ELSE touched,
             rankings, i + 1)

\* store_keyword_rankings: self._rankings afterwards
store_keyword_rankings(all_rankings, site_url, rankings) ==
  IF rankings = <<>> THEN TouchSite(all_rankings, site_url)
  ELSE [TouchSite(all_rankings, site_url) EXCEPT
          ![site_url] = StoreRankingsLoop(@, rankings, 1)]

\* self._rankings[site_url].get(keyword, [])
RankingsOf(all_rankings, site_url, keyword) ==
  LET of_site == TouchSite(all_rankings, site_url)[site_url]
  IN  IF keyword \in DOMAIN of_site THEN of_site[keyword] ELSE <<>>

\* get_keyword_rankings: the rankings in the range, keyword after keyword
RECURSIVE get_keyword_rankings(_, _, _, _)
get_keyword_rankings(all_rankings, site_url, keywords, date_range) ==
  IF keywords = <<>> THEN <<>>
  ELSE SelectSeq(RankingsOf(all_rankings, site_url, Head(keywords)),
                 LAMBDA r : InDateRange(date_range, r))
         \o get_keyword_rankings(all_rankings, site_url, Tail(keywords), date_range)

\* get_latest_ranking: max(rankings, key=lambda r: r.date), the first of the latest
get_latest_ranking(all_rankings, site_url, keyword) ==
  LET rankings == RankingsOf(all_rankings, site_url, keyword)
  IN  IF rankings = <<>> THEN None
      ELSE rankings[CHOOSE i \in 1..Len(rankings) :
                      /\ \A j \in 1..Len(rankings) : rankings[j].date <= rankings[i].date
                      /\ \A j \in 1..(i - 1) : rankings[j].date < rankings[i].date]

\* get_stored_metrics: list(self._data[site_url].keys()), as a set
get_stored_metrics(data, site_url) ==
  {key[2] : key \in {k \in DOMAIN data : k[1] = site_url}}

\* the total of the lengths of the lists a function holds
RECURSIVE TotalLen(_, _)
TotalLen(f, ks) ==
  IF ks = {} THEN 0
  ELSE LET k == CHOOSE x \in ks : TRUE
       IN  Len(f[k]) + TotalLen(f, ks \ {k})

\* get_data_count: the number of points of each metric, over its dimensions, and
\* under "keyword_rankings" the number of rankings of the site when there are any
get_data_count(data, all_rankings, site_url) ==
  LET of_site == TouchSite(all_rankings, site_url)[site_url]
      keyword_count == TotalLen(of_site, DOMAIN of_site)
      counted == get_stored_metrics(data, site_url)
                   \cup (IF keyword_count > 0 THEN {"keyword_rankings"} ELSE {})
  IN  [name \in counted |->
         IF name \in get_stored_metrics(data, site_url)
         THEN TotalLen(data, {k \in DOMAIN data : k[1] = site_url /\ k[2] = name})
         ELSE keyword_count]

\* ---- alert manager: alerts from anomalies and forecasts ----------------------------
\* s[:n] for n >= 0
Take(s, n) == SubSeq(s, 1, Min(n, Len(s)))

\* AlertManager._priority_order
priority_order(priority) ==
  CASE priority = "critical" -> 0
    [] priority = "urgent" -> 1
    [] priority = "warning" -> 2
    [] priority = "info" -> 3
    [] OTHER -> 4

\* severity_order.get(severity, 0) of _create_anomaly_alert
severity_order(severity) ==
  CASE severity = "low" -> 1
    [] severity = "medium" -> 2
    [] severity = "high" -> 3
    [] severity = "critical" -> 4
    [] OTHER -> 0

\* priority_map.get(severity, AlertPriority.WARNING) of _create_anomaly_alert
priority_map(severity) ==
  CASE severity = "low" -> "info"
    [] severity = "medium" -> "warning"
    [] severity = "high" -> "urgent"
    [] severity = "critical" -> "critical"
    [] OTHER -> "warning"

\* AlertManager._get_generic_steps: the actions of the generic steps of a metric
get_generic_steps(metric_type) ==
  CASE metric_type = "organic_traffic" ->
         << "Check Google Search Console for any notices or manual actions",
            "Review recent site changes in version control",
            "Analyze top landing pages for traffic changes" >>
    [] metric_type = "keyword_ranking" ->
         << "Compare current SERP with previous snapshot",
            "Analyze content quality vs new ranking pages" >>
    [] metric_type = "ctr" ->
         << "Review title tags and meta descriptions",
            "Check for new SERP features affecting clicks" >>
    [] OTHER -> << "Review metric data in detail" >>

\* the steps appended for a list of actions while order counts up from first
StepsFrom(actions, first) ==
  [i \in 1..Len(actions) |-> [order |-> first + i - 1, action |-> actions[i]]]

\* the actions the two nested loops of _generate_investigation_steps visit:
\* hypotheses[:2], and investigation_steps[:2] of each
RECURSIVE HypothesisActions(_)
HypothesisActions(hypotheses) ==
  IF hypotheses = <<>> THEN <<>>
  ELSE Take(Head(hypotheses).investigation_steps, 2) \o HypothesisActions(Tail(hypotheses))

\* AlertManager._generate_investigation_steps; a step is kept as its order and action,
\* its tool and outcome texts are looked up from the action and not kept
generate_investigation_steps(anomaly) ==
  LET steps == StepsFrom(HypothesisActions(Take(anomaly.hypotheses, 2)), 1)
      generic_steps == get_generic_steps(anomaly.metric_type)
  IN  IF Len(steps) < 3
        THEN steps \o StepsFrom(Take(generic_steps, 3 - Len(steps)), Len(steps) + 1)
        ELSE steps

\* the None an alert constructor returns instead of an Alert
NoAlert ==
  [priority |-> None, anomaly_id |-> 0, forecast_id |-> 0, metric_type |-> None,
   investigation_steps |-> <<>>]

IsAlert(alert) == alert # NoAlert

\* AlertManager._create_anomaly_alert; an id of 0 is None
create_anomaly_alert(config, anomaly) ==
  IF severity_order(anomaly.severity) < severity_order(config.min_severity_for_alert)
    THEN NoAlert
    ELSE [priority |-> priority_map(anomaly.severity),
          anomaly_id |-> anomaly.id,
          forecast_id |-> 0,
          metric_type |-> anomaly.metric_type,
          investigation_steps |-> generate_investigation_steps(anomaly)]

\* (current - future_30d) / current * 100 >= percent, for current # 0
DeclineAtLeast(current, future_30d, percent) ==
  IF current > 0
    THEN (current - future_30d) * 100 >= percent * current
    ELSE (current - future_30d) * 100 <= percent * current

\* the three fixed steps of a forecast alert
ForecastSteps ==
  StepsFrom(<< "Review recent content and technical changes",
               "Check Google Search Console for issues",
               "Analyze competitor movements" >>, 1)

\* AlertManager._create_forecast_alert
create_forecast_alert(config, forecast) ==
  LET current == IF forecast.daily_forecasts # <<>> THEN forecast.daily_forecasts[1] ELSE 0
      future_30d == forecast.forecast_30d
  IN  IF forecast.trend_direction # "decreasing" THEN NoAlert
      ELSE IF current = 0 THEN NoAlert
      ELSE IF ~DeclineAtLeast(current, future_30d, config.negative_forecast_threshold) THEN NoAlert
      ELSE [priority |-> IF DeclineAtLeast(current, future_30d, 30) THEN "critical"
                         ELSE IF DeclineAtLeast(current, future_30d, 20) THEN "urgent"
                         ELSE "warning",
            anomaly_id |-> 0,
            forecast_id |-> forecast.id,
            metric_type |-> forecast.metric_type,
            investigation_steps |-> ForecastSteps]

\* the two loops of generate_alerts: anomaly alerts first, then forecast alerts,
\* each kept only if it is not None
CandidateAlerts(config, anomalies, forecasts) ==
  SelectSeq([i \in 1..Len(anomalies) |-> create_anomaly_alert(config, anomalies[i])], IsAlert)
    \o SelectSeq([j \in 1..Len(forecasts) |-> create_forecast_alert(config, forecasts[j])],
                 IsAlert)

\* where sorted() puts an alert into an already sorted list: behind every alert
\* whose key is not larger (the sort is stable)
InsertByPriority(sorted, alert) ==
  LET k == Cardinality({i \in 1..Len(sorted) :
                          priority_order(sorted[i].priority) <= priority_order(alert.priority)})
  IN  SubSeq(sorted, 1, k) \o <<alert>> \o SubSeq(sorted, k + 1, Len(sorted))

\* sorted(alerts, key=lambda a: self._priority_order(a.priority))
RECURSIVE SortedByPriority(_)
SortedByPriority(alerts) ==
  IF alerts = <<>> THEN <<>>
  ELSE InsertByPriority(SortedByPriority(SubSeq(alerts, 1, Len(alerts) - 1)),
                        alerts[Len(alerts)])

\* generate_alerts without the sort: the first max_alerts_per_run candidates
generate_alerts_unsorted(config, anomalies, forecasts) ==
  Take(CandidateAlerts(config, anomalies, forecasts), config.max_alerts_per_run)

\* AlertManager.generate_alerts, for max_alerts_per_run >= 0
generate_alerts(config, anomalies, forecasts) ==
  Take(SortedByPriority(CandidateAlerts(config, anomalies, forecasts)),
       config.max_alerts_per_run)

\* ---- components at rest ----------------------------------------------------
ClassifierIdle ==
  /\ use_llm = FALSE
  /\ cb_pc = "off"
  /\ classified = <<>>
  /\ ambiguous = <<>>
  /\ matched_signals = <<>>
  /\ attempt = 0
  /\ llm_log = <<>>

\* Settings.cluster_min_size: Field(default=3, ge=2, le=10)
MinClusterSizes == {2, 3}

ClusterIdle ==
  /\ self_min_cluster_size = 0
  /\ cs_pc = "off"
  /\ cs_config = 0
  /\ cs_clusters = <<>>

AgentIdle ==
  /\ pc = "off"
  /\ task = <<>>
  /\ analyze_keywords = <<>>
  /\ clusters = PyNone
  /\ orphan_keywords = PyNone
  /\ elapsed = 0
  /\ analyze_result = NoResult
  /\ repository = EmptyStore
  /\ vector_storage = EmptyStore
  /\ events = <<>>

ForecasterIdle ==
  /\ fc_pc = "off"
  /\ fc_config = [ma_window |-> 7, min_data_points |-> 14, use_ensemble |-> TRUE]
  /\ fc_values = <<>>
  /\ fc_horizons = <<>>
  /\ daily_forecasts = <<>>
  /\ forecast_result = NoForecast

HealthIdle ==
  /\ hs_pc = "off"
  /\ hs_anomalies = <<>>
  /\ hs_forecasts = <<>>
  /\ health_score = NoHealthScore

NormalizerIdle ==
  /\ nz_pc = "off"
  /\ nz_self = DefaultNormalizer
  /\ nz_text = <<>>
  /\ nz_once = <<>>
  /\ nz_twice = <<>>
  /\ nz_keywords = <<>>
  /\ nz_valid = <<>>

DeduplicatorIdle ==
  /\ sd_pc = "off"
  /\ sd_threshold = <<17, 20>>
  /\ sd_keywords = <<>>
  /\ sd_unique = <<>>
  /\ sd_text1 = <<>>
  /\ sd_text2 = <<>>
  /\ sd_similarity = <<0, 1>>

\* no call made yet
NoCall == [op |-> "none", args |-> <<>>, returned |-> None]

StoreIdle ==
  /\ ts_data = [key \in {} |-> <<>>]
  /\ ts_rankings = [site_url \in {} |-> <<>>]
  /\ ts_call = NoCall
  /\ ts_calls = 0

DetectorIdle ==
  /\ dt_pc = "off"
  /\ dt_config = DefaultAnomalyConfig
  /\ dt_values = <<>>
  /\ dt_metric = "organic_traffic"
  /\ dt_sensitivity = <<2, 1>>
  /\ dt_anomalies = <<>>
  /\ dt_z = <<>>
  /\ dt_tiers = <<>>

ConfidenceIdle ==
  /\ cf_pc = "off"
  /\ cf_config = [ma_window |-> 7, use_ensemble |-> TRUE, min_data_points |-> 14]
  /\ cf_values = <<>>
  /\ cf_method = "ensemble"
  /\ cf_confidences = <<>>

DependenciesIdle ==
  /\ dp_agent = 0
  /\ dp_pc = <<>>
  /\ dp_got = <<>>
  /\ dp_shutdown = "off"
  /\ dp_log = <<>>

AlertsIdle ==
  /\ am_pc = "off"
  /\ am_config = [min_severity_for_alert |-> "medium", negative_forecast_threshold |-> 10,
                  max_alerts_per_run |-> 20]
  /\ am_anomalies = <<>>
  /\ am_forecasts = <<>>
  /\ am_candidates = <<>>
  /\ am_alerts = <<>>

\* ---- _calculate_health_score as a process ---------------------------------------
\* anomalies as the detector reports them
AnomalyPool ==
  { [metric_type |-> "organic_traffic", anomaly_type |-> "sudden_drop", severity |-> "critical"],
    [metric_type |-> "organic_traffic", anomaly_type |-> "sudden_spike", severity |-> "low"],
    [metric_type |-> "keyword_ranking", anomaly_type |-> "gradual_decline", severity |-> "high"],
    [metric_type |-> "ctr", anomaly_type |-> "sudden_drop", severity |-> "medium"],
    [metric_type |-> "bounce_rate", anomaly_type |-> "volatility", severity |-> "medium"] }

\* the trend of a forecast; strength in thousandths
ForecastPool ==
  { [trend_direction |-> "decreasing", trend_strength |-> 500],
    [trend_direction |-> "decreasing", trend_strength |-> 300],
    [trend_direction |-> "increasing", trend_strength |-> 500] }

HealthInit ==
  /\ AlertsIdle
  /\ DependenciesIdle
  /\ ConfidenceIdle
  /\ DetectorIdle
  /\ StoreIdle
  /\ DeduplicatorIdle
  /\ NormalizerIdle
  /\ ClassifierIdle
  /\ ClusterIdle
  /\ AgentIdle
  /\ ForecasterIdle
  /\ kws = <<>>
  /\ hs_pc = "idle"
  /\ hs_anomalies \in SeqsUpTo(AnomalyPool, MaxAnomalies)
  /\ hs_forecasts \in SeqsUpTo(ForecastPool, MaxForecasts)
  /\ health_score = NoHealthScore

CalculateHealthScore ==
  /\ hs_pc = "idle"
  /\ health_score' = calculate_health_score(hs_anomalies, hs_forecasts)
  /\ hs_pc' = "returned"
  /\ UNCHANGED <<hs_anomalies, hs_forecasts, outsideHealth>>

HealthNext == CalculateHealthScore

SpecHealth == HealthInit /\ [][HealthNext]_vars

\* ---- forecast as a process --------------------------------------------------------
\* the daily values of a metric
SeriesValues == {0, 4, 10}
\* ForecastConfig(ma_window, min_data_points=3, use_ensemble)
ForecastConfigs ==
  {[ma_window |-> w, min_data_points |-> 3, use_ensemble |-> e] :
     w \in {2, 7}, e \in BOOLEAN}
HorizonLists == {<<30, 60, 90>>, <<2, 7>>}

ForecastInit ==
  /\ AlertsIdle
  /\ DependenciesIdle
  /\ ConfidenceIdle
  /\ DetectorIdle
  /\ StoreIdle
  /\ DeduplicatorIdle
  /\ NormalizerIdle
  /\ HealthIdle
  /\ ClassifierIdle
  /\ ClusterIdle
  /\ AgentIdle
  /\ kws = <<>>
  /\ fc_pc = "idle"
  /\ fc_config \in ForecastConfigs
  /\ fc_values \in UNION {[1..n -> SeriesValues] : n \in 2..MaxSeriesLen}
  /\ fc_horizons \in HorizonLists
  /\ daily_forecasts = <<>>
  /\ forecast_result = NoForecast

\* forecast up to the loop: None for a series that is too short
ForecastStart ==
  /\ fc_pc = "idle"
  /\ IF Len(fc_values) < fc_config.min_data_points
     THEN fc_pc' = "returned"
     ELSE fc_pc' = "loop"
  /\ UNCHANGED <<fc_config, fc_values, fc_horizons, daily_forecasts, forecast_result,
                 outsideForecaster>>

\* one iteration of for day in range(1, max_horizon + 1)
ForecastDay ==
  /\ fc_pc = "loop"
  /\ Len(daily_forecasts) < SeqMax(fc_horizons)
  /\ LET day == Len(daily_forecasts) + 1
     IN  daily_forecasts' =
           Append(daily_forecasts, ForecastPoint(day, forecast_func(fc_config, fc_values, day)))
  /\ UNCHANGED <<fc_pc, fc_config, fc_values, fc_horizons, forecast_result,
                 outsideForecaster>>

\* the rest of forecast, after the loop
ForecastReturn ==
  /\ fc_pc = "loop"
  /\ Len(daily_forecasts) = SeqMax(fc_horizons)
  /\ fc_pc' = "returned"
  /\ forecast_result' =
       [returned |-> TRUE,
        method |-> IF fc_config.use_ensemble THEN "ensemble" ELSE "moving_average",
        forecast_30d |-> HorizonForecast(daily_forecasts, fc_horizons, 30),
        forecast_60d |-> HorizonForecast(daily_forecasts, fc_horizons, 60),
        forecast_90d |-> HorizonForecast(daily_forecasts, fc_horizons, 90),
        trend_direction |-> calculate_trend(fc_values).direction,
        trend_strength |-> calculate_trend(fc_values).strength]
  /\ UNCHANGED <<fc_config, fc_values, fc_horizons, daily_forecasts,
                 outsideForecaster>>

ForecastNext == ForecastStart \/ ForecastDay \/ ForecastReturn

SpecForecast == ForecastInit /\ [][ForecastNext]_vars

\* ---- analyze as a process ------------------------------------------------------
\* raw keyword texts a task is made of: 'Buy ', 'how', 'buy', 'seo', 'a', 'login'
TaskPool ==
  << <<"B", "u", "y", " ">>,
     <<"h", "o", "w">>,
     <<"b", "u", "y">>,
     <<"s", "e", "o">>,
     <<"a">>,
     <<"l", "o", "g", "i", "n">> >>

\* task.keywords: the texts of the pool at the chosen positions, in the pool's order
SubList(positions) ==
  LET chosen == SelectSeq([j \in 1..Len(TaskPool) |-> j], LAMBDA j : j \in positions)
  IN  [j \in 1..Len(chosen) |-> TaskPool[chosen[j]]]
Tasks ==
  {SubList(positions) : positions \in {P \in SUBSET (1..Len(TaskPool)) :
                                         Cardinality(P) <= MaxTaskKeywords}}

\* seconds a stage may take
Durations == {1, 121}
Advance(t, d) == IF t + d > 121 THEN 121 ELSE t + d

\* what the embedding provider may do for n texts
ProviderErrors ==
  { [type |-> "ProviderError", message |-> "embedding provider unavailable"],
    [type |-> "TimeoutError", message |-> "embedding request timed out"] }
ProviderOutcomes(n) ==
  {[exc |-> e, embeddings |-> <<>>] : e \in ProviderErrors}
  \cup {[exc |-> NoException, embeddings |-> [j \in 1..n |-> <<1, 0>>]],
        [exc |-> NoException,
         embeddings |-> [j \in 1..n |-> IF j % 2 = 1 THEN <<1, 0>> ELSE <<0, 1>>]]}

\* what the LLM call may do for the ambiguous keywords: raise, or answer with an
\* unparseable text, a non-array, or an array of at most one object
LlmOutcomes(objs, amb) ==
  {[exc |-> e, response |-> [kind |-> "invalid_json", items |-> <<>>]] : e \in {"APIError"}}
  \cup {[exc |-> "none", response |-> r] :
          r \in {x \in Responses(objs, amb) : Len(x.items) <= 1}}

\* what a repository or vector-store call may do
StoreErrors ==
  { [type |-> "StoreError", message |-> "connection refused"] }

AnalyzeInit ==
  /\ AlertsIdle
  /\ DependenciesIdle
  /\ ConfidenceIdle
  /\ DetectorIdle
  /\ StoreIdle
  /\ DeduplicatorIdle
  /\ NormalizerIdle
  /\ HealthIdle
  /\ ClassifierIdle
  /\ ForecasterIdle
  /\ self_min_cluster_size \in MinClusterSizes
  /\ cs_pc = "off"
  /\ cs_config = 0
  /\ cs_clusters = <<>>
  /\ kws = <<>>
  /\ pc = "start"
  /\ task \in Tasks
  /\ analyze_keywords = <<>>
  /\ clusters = PyNone
  /\ orphan_keywords = PyNone
  /\ elapsed = 0
  /\ analyze_result = NoResult
  /\ repository = EmptyStore
  /\ vector_storage = EmptyStore
  /\ events = <<>>

\* return from analyze through an except clause
Fail(e, evts) ==
  /\ pc' = "returned"
  /\ analyze_result' = Failed(e)
  /\ events' = events \o evts

\* the stage took some time; _check_timeout(start_time, stage), then on to next
CheckThen(evts, stage, next) ==
  \E d \in Durations :
    LET e == check_timeout(Advance(elapsed, d), stage)
    IN  /\ elapsed' = Advance(elapsed, d)
        /\ IF e.type = "none"
           THEN /\ pc' = next
                /\ events' = events \o evts
                /\ UNCHANGED analyze_result
           ELSE Fail(e, evts \o <<"budget_exceeded">>)

\* step 1: normalize and deduplicate; return if nothing is left
AnalyzeNormalize ==
  /\ pc = "start"
  /\ LET unique == deduplicate(SIMILARITY_THRESHOLD,
                               normalize_raw_keywords(DefaultNormalizer, task))
     IN  /\ kws' = unique
         /\ analyze_keywords' = [i \in 1..Len(unique) |-> i]
         /\ IF unique = <<>>
            THEN /\ pc' = "returned"
                 /\ analyze_result' = [Completed(<<>>, <<>>) EXCEPT
                                 !.note = "No valid keywords after normalization"]
                 /\ events' = events \o <<"normalize">>
                 /\ UNCHANGED elapsed
            ELSE CheckThen(<<"normalize">>, "after normalization", "embed")
  /\ UNCHANGED <<task, clusters, orphan_keywords, repository, vector_storage,
                 outsideAgent>>

\* step 2: generate embeddings
AnalyzeEmbed ==
  /\ pc = "embed"
  /\ \E outcome \in ProviderOutcomes(Len(analyze_keywords)) :
       LET r == generate_embeddings(kws, analyze_keywords, outcome)
           evts == IF outcome.exc.type = "none" THEN <<"embed">>
                   ELSE <<"embed", "embed_raised">>
       IN  /\ kws' = r.kws
           /\ analyze_keywords' = r.keywords
           /\ IF r.exc.type = "none"
              THEN CheckThen(evts, "after embeddings", "classify")
              ELSE /\ Fail(r.exc, evts)
                   /\ UNCHANGED elapsed
  /\ UNCHANGED <<task, clusters, orphan_keywords, repository, vector_storage,
                 outsideAgent>>

\* step 3: classify search intent
AnalyzeClassify ==
  /\ pc = "classify"
  /\ LET rule == rule_based_classify(kws, analyze_keywords)
     IN  \E outcome \in LlmOutcomes(rule.kws, rule.ambiguous) :
           LET r == second_pass(rule, TRUE, outcome)
           IN  /\ kws' = r.kws
               /\ analyze_keywords' = r.classified
               /\ CheckThen(IF rule.ambiguous # <<>> /\ outcome.exc # "none"
                            THEN <<"classify", "llm_raised">> ELSE <<"classify">>,
                            "after intent classification", "cluster")
  /\ UNCHANGED <<task, clusters, orphan_keywords, repository, vector_storage,
                 outsideAgent>>

\* step 4: cluster keywords and unpack what the service returns
AnalyzeCluster ==
  /\ pc = "cluster"
  /\ \E labels \in Labelings(Len(HasEmbedding(kws, analyze_keywords))) :
       LET r == cluster_keywords(kws, analyze_keywords, self_min_cluster_size,
                                 self_min_cluster_size, labels)
           u == Unpack(r.clusters)
       IN  /\ kws' = r.kws
           /\ IF u.exc.type = "none"
              THEN /\ clusters' = u.first
                   /\ orphan_keywords' = u.second
                   /\ CheckThen(<<"cluster">>, "after clustering", "persist")
              ELSE /\ Fail(u.exc, <<"cluster">>)
                   /\ UNCHANGED <<clusters, orphan_keywords, elapsed>>
  /\ UNCHANGED <<task, analyze_keywords, repository, vector_storage, outsideAgent>>

\* steps 5 and 6: combine, persist, check the budget, store the vectors, return
AnalyzePersistAndStore ==
  /\ pc = "persist"
  /\ LET c == Combine(clusters, orphan_keywords)
     IN  IF c.exc.type # "none"
         THEN /\ Fail(c.exc, <<>>)
              /\ UNCHANGED <<repository, vector_storage, elapsed>>
         ELSE \/ \E e \in StoreErrors :
                   /\ Fail(e, <<"persist", "persist_raised">>)
                   /\ UNCHANGED <<repository, vector_storage, elapsed>>
              \/ /\ repository' = Save(repository, kws, c.all_keywords, clusters.value)
                 /\ \E d \in Durations :
                      LET t == check_timeout(Advance(elapsed, d), "after persistence")
                      IN  /\ elapsed' = Advance(elapsed, d)
                          /\ IF t.type # "none"
                             THEN /\ Fail(t, <<"persist", "budget_exceeded">>)
                                  /\ UNCHANGED vector_storage
                             ELSE \/ \E e \in StoreErrors :
                                       /\ Fail(e, <<"persist", "vector_store",
                                                    "vector_store_raised">>)
                                       /\ UNCHANGED vector_storage
                                  \/ /\ vector_storage' =
                                          Save(vector_storage, kws, c.all_keywords,
                                               clusters.value)
                                     /\ pc' = "returned"
                                     /\ analyze_result' = Completed(c.all_keywords, clusters.value)
                                     /\ events' = events \o <<"persist", "vector_store">>
  /\ UNCHANGED <<kws, task, analyze_keywords, clusters, orphan_keywords, outsideAgent>>

Next ==
  \/ AnalyzeNormalize
  \/ AnalyzeEmbed
  \/ AnalyzeClassify
  \/ AnalyzeCluster
  \/ AnalyzePersistAndStore

Spec == AnalyzeInit /\ [][Next]_vars

\* ---- cluster_keywords as a process ------------------------------------------
\* the id of a cluster of an earlier run, which no cluster of this run has
StaleClusterId == 9
\* the keywords handed to the cluster service: two with the same embedding, one
\* with another that an earlier run had clustered, one without embedding
ClusterKeywordPool ==
  { [NewKeyword(<<"a">>) EXCEPT !.embedding = <<1, 0>>, !.search_volume = 10,
                                !.intent = "informational"],
    [NewKeyword(<<"b">>) EXCEPT !.embedding = <<1, 0>>, !.search_volume = 30,
                                !.intent = "transactional"],
    [NewKeyword(<<"c">>) EXCEPT !.embedding = <<0, 1>>, !.search_volume = 30,
                                !.cluster_id = StaleClusterId],
    [NewKeyword(<<"d">>) EXCEPT !.search_volume = 10] }

ClusterInit ==
  /\ AlertsIdle
  /\ DependenciesIdle
  /\ ConfidenceIdle
  /\ DetectorIdle
  /\ StoreIdle
  /\ DeduplicatorIdle
  /\ NormalizerIdle
  /\ HealthIdle
  /\ ClassifierIdle
  /\ AgentIdle
  /\ ForecasterIdle
  /\ kws \in SeqsUpTo(ClusterKeywordPool, MaxClusterKeywords)
  /\ self_min_cluster_size \in MinClusterSizes
  /\ cs_pc = "idle"
  /\ cs_config = 0
  /\ cs_clusters = <<>>

\* cluster_keywords(keywords, config) with config given or None
ClusterKeywords ==
  /\ cs_pc = "idle"
  /\ \E config_min \in MinClusterSizes, use_default \in BOOLEAN :
       LET config == IF use_default THEN self_min_cluster_size ELSE config_min
           keywords == [i \in 1..Len(kws) |-> i]
       IN  \E labels \in Labelings(Len(HasEmbedding(kws, keywords))) :
              LET r == cluster_keywords(kws, keywords, config, self_min_cluster_size, labels)
              IN  /\ kws' = r.kws
                  /\ cs_clusters' = r.clusters
                  /\ cs_config' = config
                  /\ cs_pc' = "clustered"
  /\ UNCHANGED <<self_min_cluster_size, outsideCluster>>

\* merge_clusters(clusters, similarity_threshold) on what cluster_keywords returned
MergeThresholds == {<<1, 2>>, <<17, 20>>}
MergeClusters ==
  /\ cs_pc = "clustered"
  /\ \E threshold \in MergeThresholds :
       LET r == merge_clusters(kws, cs_clusters, threshold)
       IN  /\ kws' = r.kws
           /\ cs_clusters' = r.clusters
  /\ cs_pc' = "merged"
  /\ UNCHANGED <<self_min_cluster_size, cs_config, outsideCluster>>

\* cluster.add_keyword(keyword) on a cluster made with KeywordCluster(), for any
\* keyword, one already added included
AddKeyword ==
  /\ cs_pc \in {"idle", "adding"}
  /\ LET cluster == IF cs_pc = "idle" THEN NewCluster(1) ELSE cs_clusters[1]
     IN  /\ Len(cluster.keywords) < MaxAddCalls
         /\ \E k \in 1..Len(kws) :
               LET r == add_keyword(kws, cluster, k)
               IN  /\ kws' = r.kws
                   /\ cs_clusters' = <<r.cluster>>
  /\ cs_pc' = "adding"
  /\ UNCHANGED <<self_min_cluster_size, cs_config, outsideCluster>>

ClusterNext == ClusterKeywords \/ MergeClusters \/ AddKeyword

SpecCluster == ClusterInit /\ [][ClusterNext]_vars

\* ---- classify_batch as a process -------------------------------------------
ClassifyInit ==
  /\ AlertsIdle
  /\ DependenciesIdle
  /\ ConfidenceIdle
  /\ DetectorIdle
  /\ StoreIdle
  /\ DeduplicatorIdle
  /\ NormalizerIdle
  /\ HealthIdle
  /\ ClusterIdle
  /\ AgentIdle
  /\ ForecasterIdle
  /\ \E texts \in SeqsUpTo(ClassifyTexts, MaxKeywords) :
       kws = [i \in 1..Len(texts) |-> NewKeyword(texts[i])]
  /\ use_llm \in BOOLEAN
  /\ cb_pc = "idle"
  /\ classified = <<>>
  /\ ambiguous = <<>>
  /\ matched_signals = <<>>
  /\ attempt = 0
  /\ llm_log = <<>>

\* classify_batch up to the call of _llm_classify (or to its return)
ClassifyBatch ==
  /\ cb_pc = "idle"
  /\ LET r == rule_based_classify(kws, [i \in 1..Len(kws) |-> i])
     IN  /\ kws' = r.kws
         /\ matched_signals' = [i \in 1..Len(kws) |-> MatchedOf(kws[i].text)]
         /\ IF r.ambiguous # <<>> /\ use_llm
            THEN /\ cb_pc' = "llm"
                 /\ classified' = r.classified
                 /\ ambiguous' = r.ambiguous
            ELSE /\ cb_pc' = "returned"
                 /\ classified' = r.classified \o r.ambiguous
                 /\ ambiguous' = r.ambiguous
  /\ UNCHANGED <<use_llm, attempt, llm_log, outsideClassifier>>

\* one attempt of _llm_classify in which llm_client.complete raises
LlmAttemptRaises ==
  /\ cb_pc = "llm"
  /\ attempt < MAX_ATTEMPTS
  /\ \E exc \in CompleteErrors :
       /\ attempt' = attempt + 1
       /\ llm_log' = Append(llm_log, exc)
       /\ IF IsRetryable(exc) /\ attempt + 1 < MAX_ATTEMPTS
          THEN UNCHANGED <<kws, cb_pc, classified>>
          ELSE /\ kws' = BatchFallback(kws, ambiguous)
               /\ classified' = classified \o ambiguous
               /\ cb_pc' = "returned"
  /\ UNCHANGED <<use_llm, ambiguous, matched_signals, outsideClassifier>>

\* one attempt of _llm_classify in which llm_client.complete returns a text
LlmAttemptResponds ==
  /\ cb_pc = "llm"
  /\ attempt < MAX_ATTEMPTS
  /\ \E response \in Responses(kws, ambiguous) :
       LET r == llm_classify(kws, ambiguous, response)
       IN  /\ attempt' = attempt + 1
           /\ llm_log' = Append(llm_log, response.kind)
           /\ kws' = IF r.exc = "none" THEN r.kws ELSE BatchFallback(r.kws, ambiguous)
           /\ classified' = classified \o ambiguous
           /\ cb_pc' = "returned"
  /\ UNCHANGED <<use_llm, ambiguous, matched_signals, outsideClassifier>>

ClassifyNext == ClassifyBatch \/ LlmAttemptRaises \/ LlmAttemptResponds

SpecClassify == ClassifyInit /\ [][ClassifyNext]_vars

\* ---- normalize_text as a process -----------------------------------------------
\* the characters of the texts: a letter, a capital, a blank, a special character
TextChars == {"a", "B", " ", "!"}
Texts == UNION {[1..n -> TextChars] : n \in 0..MaxTextLen}
\* KeywordNormalizer(lowercase=.., remove_special_chars=..)
TextNormalizers ==
  {[DefaultNormalizer EXCEPT !.lowercase = l, !.remove_special_chars = r] :
     l \in BOOLEAN, r \in BOOLEAN}

NormalizeTextInit ==
  /\ AlertsIdle
  /\ DependenciesIdle
  /\ ConfidenceIdle
  /\ DetectorIdle
  /\ StoreIdle
  /\ DeduplicatorIdle
  /\ ClassifierIdle
  /\ ClusterIdle
  /\ AgentIdle
  /\ ForecasterIdle
  /\ HealthIdle
  /\ kws = <<>>
  /\ nz_pc = "idle"
  /\ nz_self \in TextNormalizers
  /\ nz_text \in Texts
  /\ nz_once = <<>>
  /\ nz_twice = <<>>
  /\ nz_keywords = <<>>
  /\ nz_valid = <<>>

\* normalized = normalizer.normalize_text(text)
NormalizeText ==
  /\ nz_pc = "idle"
  /\ nz_once' = normalize_text(nz_self, nz_text)
  /\ nz_pc' = "once"
  /\ UNCHANGED <<nz_self, nz_text, nz_twice, nz_keywords, nz_valid, outsideNormalizer>>

\* normalizer.normalize_text(normalized)
NormalizeTextAgain ==
  /\ nz_pc = "once"
  /\ nz_twice' = normalize_text(nz_self, nz_once)
  /\ nz_pc' = "twice"
  /\ UNCHANGED <<nz_self, nz_text, nz_once, nz_keywords, nz_valid, outsideNormalizer>>

NormalizeTextNext == NormalizeText \/ NormalizeTextAgain

SpecNormalizeText == NormalizeTextInit /\ [][NormalizeTextNext]_vars

\* ---- normalize_keywords as a process --------------------------------------------
\* Keyword(text=..) for 'Ba', 'ba', ' a', 'a!', '', 'aBa', and a keyword that an
\* earlier normalize_keywords call has already normalized from 'Ba '
NormalizeKeywordPool ==
  { NewKeyword(<<"B", "a">>), NewKeyword(<<"b", "a">>), NewKeyword(<<" ", "a">>),
    NewKeyword(<<"a", "!">>), NewKeyword(<<>>), NewKeyword(<<"a", "B", "a">>),
    [NewKeyword(<<"b", "a">>) EXCEPT !.normalized_text = <<"b", "a">>,
                                     !.original_text = <<"B", "a", " ">>] }
\* KeywordNormalizer(lowercase, remove_special_chars, min_length, max_length)
KeywordNormalizers ==
  {[lowercase |-> l, remove_special_chars |-> r, min_length |-> lo, max_length |-> hi] :
     l \in BOOLEAN, r \in BOOLEAN, lo \in {1, 2}, hi \in {2, 200}}

NormalizeKeywordsInit ==
  /\ AlertsIdle
  /\ DependenciesIdle
  /\ ConfidenceIdle
  /\ DetectorIdle
  /\ StoreIdle
  /\ DeduplicatorIdle
  /\ ClassifierIdle
  /\ ClusterIdle
  /\ AgentIdle
  /\ ForecasterIdle
  /\ HealthIdle
  /\ kws = <<>>
  /\ nz_pc = "idle"
  /\ nz_self \in KeywordNormalizers
  /\ nz_text = <<>>
  /\ nz_once = <<>>
  /\ nz_twice = <<>>
  /\ nz_keywords \in SeqsUpTo(NormalizeKeywordPool, MaxNormKeywords)
  /\ nz_valid = <<>>

\* result = normalizer.normalize_keywords(keywords)
NormalizeKeywords ==
  /\ nz_pc = "idle"
  /\ nz_valid' = normalize_keywords(nz_self, nz_keywords)
  /\ nz_pc' = "returned"
  /\ UNCHANGED <<nz_self, nz_text, nz_once, nz_twice, nz_keywords, outsideNormalizer>>

NormalizeKeywordsNext == NormalizeKeywords

SpecNormalizeKeywords == NormalizeKeywordsInit /\ [][NormalizeKeywordsNext]_vars

\* ---- calculate_similarity as a process ------------------------------------------
\* the texts compared: all texts of up to MaxSimilarityLen letters a, b
SimilarityTexts == UNION {[1..n -> {"a", "b"}] : n \in 0..MaxSimilarityLen}

SimilarityInit ==
  /\ AlertsIdle
  /\ DependenciesIdle
  /\ ConfidenceIdle
  /\ DetectorIdle
  /\ StoreIdle
  /\ ClassifierIdle
  /\ ClusterIdle
  /\ AgentIdle
  /\ ForecasterIdle
  /\ HealthIdle
  /\ NormalizerIdle
  /\ kws = <<>>
  /\ sd_pc = "idle"
  /\ sd_threshold = <<17, 20>>
  /\ sd_keywords = <<>>
  /\ sd_unique = <<>>
  /\ sd_text1 \in SimilarityTexts
  /\ sd_text2 \in SimilarityTexts
  /\ sd_similarity = <<0, 1>>

\* similarity = deduplicator.calculate_similarity(text1, text2)
CalculateSimilarity ==
  /\ sd_pc = "idle"
  /\ sd_similarity' = calculate_similarity(sd_text1, sd_text2)
  /\ sd_pc' = "returned"
  /\ UNCHANGED <<sd_threshold, sd_keywords, sd_unique, sd_text1, sd_text2,
                 outsideDeduplicator>>

SimilarityNext == CalculateSimilarity

SpecSimilarity == SimilarityInit /\ [][SimilarityNext]_vars

\* ---- deduplicate as a process ----------------------------------------------------
\* Keyword(text=..) for '', 'a', 'ab', 'abc', 'abd', 'bd'
DedupKeywordPool ==
  { NewKeyword(<<>>), NewKeyword(<<"a">>), NewKeyword(<<"a", "b">>),
    NewKeyword(<<"a", "b", "c">>), NewKeyword(<<"a", "b", "d">>),
    NewKeyword(<<"b", "d">>) }
\* SimilarityDeduplicator(similarity_threshold=..): 0.5 and the default 0.85
Thresholds == {<<1, 2>>, <<17, 20>>}

DeduplicateInit ==
  /\ AlertsIdle
  /\ DependenciesIdle
  /\ ConfidenceIdle
  /\ DetectorIdle
  /\ StoreIdle
  /\ ClassifierIdle
  /\ ClusterIdle
  /\ AgentIdle
  /\ ForecasterIdle
  /\ HealthIdle
  /\ NormalizerIdle
  /\ kws = <<>>
  /\ sd_pc = "idle"
  /\ sd_threshold \in Thresholds
  /\ sd_keywords \in SeqsUpTo(DedupKeywordPool, MaxDedupKeywords)
  /\ sd_unique = <<>>
  /\ sd_text1 = <<>>
  /\ sd_text2 = <<>>
  /\ sd_similarity = <<0, 1>>

\* result = deduplicator.deduplicate(keywords)
Deduplicate ==
  /\ sd_pc = "idle"
  /\ sd_unique' = deduplicate(sd_threshold, sd_keywords)
  /\ sd_pc' = "returned"
  /\ UNCHANGED <<sd_threshold, sd_keywords, sd_text1, sd_text2, sd_similarity,
                 outsideDeduplicator>>

DeduplicateNext == Deduplicate

SpecDeduplicate == DeduplicateInit /\ [][DeduplicateNext]_vars

\* ---- store_time_series as a process ----------------------------------------------
\* (site_url, metric_type, dimension)
StoreKeys ==
  { <<"site", "organic_traffic", "none">>, <<"site", "keyword_ranking", "seo">> }
\* MetricDataPoint(date, value): dates as day numbers
StorePoints == {[date |-> dt, value |-> v] : dt \in 1..3, v \in {10, 20}}

StoreSites == {key[1] : key \in StoreKeys}
\* KeywordRankingData(keyword, current_position, date)
RankingKeywords == {"seo"}
StoreRankings ==
  {[keyword |-> kw, current_position |-> 5, date |-> dt] : kw \in RankingKeywords, dt \in 1..2}
\* DateRange(start_date, end_date), end_date not before start_date
DateRanges == {[start_date |-> 1, end_date |-> 1], [start_date |-> 2, end_date |-> 3]}
\* the argument baseline_days
BaselineDays == {3, 30}

StoreInit ==
  /\ AlertsIdle
  /\ DependenciesIdle
  /\ ConfidenceIdle
  /\ DetectorIdle
  /\ ClassifierIdle
  /\ ClusterIdle
  /\ AgentIdle
  /\ ForecasterIdle
  /\ HealthIdle
  /\ NormalizerIdle
  /\ DeduplicatorIdle
  /\ kws = <<>>
  /\ ts_data = [key \in {} |-> <<>>]
  /\ ts_rankings = [site_url \in {} |-> <<>>]
  /\ ts_call = NoCall
  /\ ts_calls = 0

\* store.store_time_series(site_url, data) for any data
StoreTimeSeries ==
  /\ ts_calls < MaxStoreCalls
  /\ \E key \in StoreKeys, data_points \in SeqsUpTo(StorePoints, MaxStorePoints) :
        /\ ts_data' = [Touch(ts_data, key) EXCEPT ![key] = store_time_series(@, data_points)]
        /\ ts_call' = [op |-> "store_time_series", args |-> <<key, data_points>>,
                       returned |-> None]
  /\ ts_calls' = ts_calls + 1
  /\ UNCHANGED <<ts_rankings, outsideStore>>

\* store.store_keyword_rankings(site_url, rankings)
StoreKeywordRankings ==
  /\ ts_calls < MaxStoreCalls
  /\ \E site_url \in StoreSites, rankings \in SeqsUpTo(StoreRankings, 1) :
        /\ ts_rankings' = store_keyword_rankings(ts_rankings, site_url, rankings)
        /\ ts_call' = [op |-> "store_keyword_rankings", args |-> <<site_url, rankings>>,
                       returned |-> None]
  /\ ts_calls' = ts_calls + 1
  /\ UNCHANGED <<ts_data, outsideStore>>

\* store.get_time_series(site_url, metric_type, date_range, dimension)
GetTimeSeries ==
  /\ ts_calls < MaxStoreCalls
  /\ \E key \in StoreKeys, date_range \in DateRanges :
        /\ ts_data' = Touch(ts_data, key)
        /\ ts_call' = [op |-> "get_time_series", args |-> <<key, date_range>>,
                       returned |-> get_time_series(ts_data, key, date_range)]
  /\ ts_calls' = ts_calls + 1
  /\ UNCHANGED <<ts_rankings, outsideStore>>

\* store.get_baseline_stats(site_url, metric_type, baseline_days, dimension)
GetBaselineStats ==
  /\ ts_calls < MaxStoreCalls
  /\ \E key \in StoreKeys, baseline_days \in BaselineDays :
        /\ ts_data' = Touch(ts_data, key)
        /\ ts_call' = [op |-> "get_baseline_stats", args |-> <<key, baseline_days>>,
                       returned |-> get_baseline_stats(ts_data, key, baseline_days)]
  /\ ts_calls' = ts_calls + 1
  /\ UNCHANGED <<ts_rankings, outsideStore>>

\* store.get_keyword_rankings(site_url, keywords, date_range)
GetKeywordRankings ==
  /\ ts_calls < MaxStoreCalls
  /\ \E site_url \in StoreSites, keywords \in SeqsUpTo(RankingKeywords, 1),
        date_range \in DateRanges :
        /\ ts_rankings' = IF keywords = <<>> THEN ts_rankings
                          ELSE TouchSite(ts_rankings, site_url)
        /\ ts_call' = [op |-> "get_keyword_rankings", args |-> <<site_url, keywords, date_range>>,
                       returned |-> get_keyword_rankings(ts_rankings, site_url, keywords, date_range)]
  /\ ts_calls' = ts_calls + 1
  /\ UNCHANGED <<ts_data, outsideStore>>

\* store.get_latest_ranking(site_url, keyword)
GetLatestRanking ==
  /\ ts_calls < MaxStoreCalls
  /\ \E site_url \in StoreSites, keyword \in RankingKeywords :
        /\ ts_rankings' = TouchSite(ts_rankings, site_url)
        /\ ts_call' = [op |-> "get_latest_ranking", args |-> <<site_url, keyword>>,
                       returned |-> get_latest_ranking(ts_rankings, site_url, keyword)]
  /\ ts_calls' = ts_calls + 1
  /\ UNCHANGED <<ts_data, outsideStore>>

StoreNext ==
  \/ StoreTimeSeries
  \/ StoreKeywordRankings
  \/ GetTimeSeries
  \/ GetBaselineStats
  \/ GetKeywordRankings
  \/ GetLatestRanking

SpecStore == StoreInit /\ [][StoreNext]_vars

\* ---- _calculate_severity as a process ----------------------------------------------
\* values a threshold of the configuration may have
ThresholdValues == {<<1, 1>>, <<2, 1>>, <<3, 1>>}
\* AnomalyConfig(low_threshold, medium_threshold, high_threshold, critical_threshold),
\* in ascending order or not
SeverityConfigs ==
  {[DefaultAnomalyConfig EXCEPT !.low_threshold = l, !.medium_threshold = m,
                                !.high_threshold = h, !.critical_threshold = c] :
     l \in ThresholdValues, m \in ThresholdValues,
     h \in ThresholdValues, c \in ThresholdValues}
     \cup {DefaultAnomalyConfig}
\* z-scores: the multiples of 1/2 from -7/2 to 7/2
ZScores == {<<k, 2>> : k \in (0 - 7)..7}

SeverityInit ==
  /\ AlertsIdle
  /\ DependenciesIdle
  /\ ConfidenceIdle
  /\ ClassifierIdle
  /\ ClusterIdle
  /\ AgentIdle
  /\ ForecasterIdle
  /\ HealthIdle
  /\ NormalizerIdle
  /\ DeduplicatorIdle
  /\ StoreIdle
  /\ kws = <<>>
  /\ dt_pc = "idle"
  /\ dt_config \in SeverityConfigs
  /\ dt_values = <<>>
  /\ dt_metric = "organic_traffic"
  /\ dt_sensitivity = <<2, 1>>
  /\ dt_anomalies = <<>>
  /\ dt_z \in ZScores \X ZScores
  /\ dt_tiers = <<>>

\* self._calculate_severity(abs(z_score)) for each of the two z-scores
CalculateSeverity ==
  /\ dt_pc = "idle"
  /\ dt_tiers' = [i \in 1..2 |->
                    calculate_severity(dt_config,
                                       <<dt_z[i][1] * dt_z[i][1], dt_z[i][2] * dt_z[i][2]>>)]
  /\ dt_pc' = "returned"
  /\ UNCHANGED <<dt_config, dt_values, dt_metric, dt_sensitivity, dt_anomalies, dt_z,
                 outsideDetector>>

SeverityNext == CalculateSeverity

SpecSeverity == SeverityInit /\ [][SeverityNext]_vars

\* ---- detect as a process ---------------------------------------------------------
\* AnomalyConfig(low_threshold=0.5, medium_threshold=1.0, high_threshold=1.5,
\* critical_threshold=2.0, min_data_points=3)
SensitiveAnomalyConfig ==
  [DefaultAnomalyConfig EXCEPT !.low_threshold = <<1, 2>>, !.medium_threshold = <<1, 1>>,
                               !.high_threshold = <<3, 2>>, !.critical_threshold = <<2, 1>>,
                               !.min_data_points = 3]
DetectConfigs == {DefaultAnomalyConfig, SensitiveAnomalyConfig}
\* daily values of a metric: a level of 50 with small (52) or large (100) excursions
DetectSeries ==
  UNION {[1..n -> {50, 52}] \cup [1..n -> {50, 100}] : n \in 2..MaxDetectLen}
\* the metric types with hypotheses, and one without
DetectMetrics == {"organic_traffic", "keyword_ranking", "ctr", "bounce_rate"}
\* the argument sensitivity: the default 2.0, and 2.5
Sensitivities == {<<2, 1>>, <<5, 2>>}

DetectInit ==
  /\ AlertsIdle
  /\ DependenciesIdle
  /\ ConfidenceIdle
  /\ ClassifierIdle
  /\ ClusterIdle
  /\ AgentIdle
  /\ ForecasterIdle
  /\ HealthIdle
  /\ NormalizerIdle
  /\ DeduplicatorIdle
  /\ StoreIdle
  /\ kws = <<>>
  /\ dt_pc = "idle"
  /\ dt_config \in DetectConfigs
  /\ dt_values \in DetectSeries
  /\ dt_metric \in DetectMetrics
  /\ dt_sensitivity \in Sensitivities
  /\ dt_anomalies = <<>>
  /\ dt_z = <<>>
  /\ dt_tiers = <<>>

\* anomalies = detector.detect(time_series, sensitivity)
Detect ==
  /\ dt_pc = "idle"
  /\ dt_anomalies' = detect(dt_config, dt_values, dt_metric, dt_sensitivity)
  /\ dt_pc' = "returned"
  /\ UNCHANGED <<dt_config, dt_values, dt_metric, dt_sensitivity, dt_z, dt_tiers,
                 outsideDetector>>

DetectNext == Detect

SpecDetect == DetectInit /\ [][DetectNext]_vars

\* ---- the forecast methods as a process ------------------------------------------------
\* ForecastMethod, models.py
ForecastMethods == {"moving_average", "linear_trend", "weighted_average", "ensemble"}

\* the method of that name, called with (values, days_ahead)
call_method(method, config, values, days_ahead) ==
  CASE method = "moving_average" -> moving_average_forecast(config, values, days_ahead)
    [] method = "linear_trend" -> linear_trend_forecast(values, days_ahead)
    [] method = "weighted_average" -> weighted_average_forecast(values, days_ahead)
    [] OTHER -> ensemble_forecast(config, values, days_ahead)

ConfidenceInit ==
  /\ AlertsIdle
  /\ DependenciesIdle
  /\ DetectorIdle
  /\ StoreIdle
  /\ DeduplicatorIdle
  /\ NormalizerIdle
  /\ HealthIdle
  /\ ForecasterIdle
  /\ ClassifierIdle
  /\ ClusterIdle
  /\ AgentIdle
  /\ kws = <<>>
  /\ cf_pc = "calling"
  /\ cf_config \in ForecastConfigs
  /\ cf_values \in UNION {[1..n -> SeriesValues] : n \in 2..MaxConfidenceLen}
  /\ cf_method \in ForecastMethods
  /\ cf_confidences = <<>>

\* one call of the method, for the next day offset; the caller's loop in forecast
\* goes up to max(horizons)
CallMethod ==
  /\ cf_pc = "calling"
  /\ Len(cf_confidences) < MaxConfidenceDays
  /\ LET days_ahead == Len(cf_confidences) + 1
     IN  cf_confidences' =
           Append(cf_confidences, call_method(cf_method, cf_config, cf_values, days_ahead).confidence)
  /\ UNCHANGED <<cf_pc, cf_config, cf_values, cf_method, outsideConfidence>>

ConfidenceNext == CallMethod

SpecConfidence == ConfidenceInit /\ [][ConfidenceNext]_vars

\* ---- get_agent and shutdown_agent as processes ------------------------------------------
\* the coroutines that call get_agent
Callers == 1..MaxCallers

\* create_agent invocations of the run so far; the k-th builds the instance k
Created == Cardinality({j \in 1..Len(dp_log) : dp_log[j].op = "create"})
GetCalls == Cardinality({j \in 1..Len(dp_log) : dp_log[j].op = "enter"})
Shutdowns == Cardinality({j \in 1..Len(dp_log) : dp_log[j].op = "shutdown"})

DependenciesInit ==
  /\ AlertsIdle
  /\ ConfidenceIdle
  /\ DetectorIdle
  /\ StoreIdle
  /\ DeduplicatorIdle
  /\ NormalizerIdle
  /\ HealthIdle
  /\ ForecasterIdle
  /\ ClassifierIdle
  /\ ClusterIdle
  /\ AgentIdle
  /\ kws = <<>>
  /\ dp_agent = 0
  /\ dp_pc = [c \in Callers |-> "idle"]
  /\ dp_got = [c \in Callers |-> 0]
  /\ dp_shutdown = "idle"
  /\ dp_log = <<>>

\* get_agent up to its first suspension: return _agent when it is set, else call
\* create_agent, which runs up to await agent.initialize()
GetAgentEnter(c) ==
  /\ dp_pc[c] \in {"idle", "returned"}
  /\ GetCalls < MaxGetCalls
  /\ IF dp_agent = 0
     THEN /\ dp_pc' = [dp_pc EXCEPT ![c] = "creating"]
          /\ dp_log' = dp_log \o <<[op |-> "enter", caller |-> c, agent |-> 0],
                                   [op |-> "create", caller |-> c, agent |-> Created + 1]>>
          /\ UNCHANGED dp_got
     ELSE /\ dp_pc' = [dp_pc EXCEPT ![c] = "returned"]
          /\ dp_got' = [dp_got EXCEPT ![c] = dp_agent]
          /\ dp_log' = dp_log \o <<[op |-> "enter", caller |-> c, agent |-> 0],
                                   [op |-> "return", caller |-> c, agent |-> dp_agent]>>
  /\ UNCHANGED <<dp_agent, dp_shutdown, outsideDependencies>>

\* create_agent returns the instance it built: _agent = <it>; return _agent
GetAgentResume(c) ==
  /\ dp_pc[c] = "creating"
  /\ LET built == (CHOOSE j \in 1..Len(dp_log) :
                     /\ dp_log[j].op = "create" /\ dp_log[j].caller = c
                     /\ \A k \in (j + 1)..Len(dp_log) :
                           ~(dp_log[k].op = "create" /\ dp_log[k].caller = c))
     IN  /\ dp_agent' = dp_log[built].agent
         /\ dp_got' = [dp_got EXCEPT ![c] = dp_log[built].agent]
         /\ dp_log' = Append(dp_log, [op |-> "return", caller |-> c, agent |-> dp_log[built].agent])
  /\ dp_pc' = [dp_pc EXCEPT ![c] = "returned"]
  /\ UNCHANGED <<dp_shutdown, outsideDependencies>>

\* shutdown_agent up to await _agent.close(), or to its end when _agent is None
ShutdownAgentEnter ==
  /\ dp_shutdown = "idle"
  /\ Shutdowns < MaxShutdowns
  /\ dp_shutdown' = IF dp_agent # 0 THEN "closing" ELSE "idle"
  /\ dp_log' = Append(dp_log, [op |-> "shutdown", caller |-> 0, agent |-> dp_agent])
  /\ UNCHANGED <<dp_agent, dp_pc, dp_got, outsideDependencies>>

\* close() returned: _agent = None
ShutdownAgentResume ==
  /\ dp_shutdown = "closing"
  /\ dp_agent' = 0
  /\ dp_shutdown' = "idle"
  /\ dp_log' = Append(dp_log, [op |-> "closed", caller |-> 0, agent |-> 0])
  /\ UNCHANGED <<dp_pc, dp_got, outsideDependencies>>

DependenciesNext ==
  \/ \E c \in Callers : GetAgentEnter(c)
  \/ \E c \in Callers : GetAgentResume(c)
  \/ ShutdownAgentEnter
  \/ ShutdownAgentResume

SpecDependencies == DependenciesInit /\ [][DependenciesNext]_vars

\* ---- generate_alerts as a process -------------------------------------------------
\* a hypothesis with that many investigation steps
Hypothesis(n) ==
  [investigation_steps |->
     SubSeq(<< "Check GSC Coverage report for errors", "Verify robots.txt hasn't changed",
               "Test site with Mobile-Friendly Test", "Check for server errors in logs" >>, 1, n)]

\* anomalies as the detector reports them, before they get their ids
AlertAnomalies ==
  { [metric_type |-> "organic_traffic", severity |-> "low", hypotheses |-> <<>>],
    [metric_type |-> "keyword_ranking", severity |-> "medium",
     hypotheses |-> <<Hypothesis(1)>>],
    [metric_type |-> "organic_traffic", severity |-> "high",
     hypotheses |-> <<Hypothesis(3), Hypothesis(4), Hypothesis(3)>>],
    [metric_type |-> "bounce_rate", severity |-> "critical", hypotheses |-> <<>>],
    [metric_type |-> "ctr", severity |-> "high", hypotheses |-> <<Hypothesis(2)>>] }

\* forecasts as the forecaster reports them, before they get their ids:
\* declines of 5, 15, 25 and 40 percent, a rise, and a first daily value of 0
AlertForecasts ==
  { [metric_type |-> "organic_traffic", trend_direction |-> "decreasing",
     daily_forecasts |-> <<100>>, forecast_30d |-> 95],
    [metric_type |-> "organic_traffic", trend_direction |-> "decreasing",
     daily_forecasts |-> <<100>>, forecast_30d |-> 85],
    [metric_type |-> "organic_traffic", trend_direction |-> "decreasing",
     daily_forecasts |-> <<100>>, forecast_30d |-> 75],
    [metric_type |-> "organic_traffic", trend_direction |-> "decreasing",
     daily_forecasts |-> <<100>>, forecast_30d |-> 60],
    [metric_type |-> "organic_traffic", trend_direction |-> "increasing",
     daily_forecasts |-> <<100>>, forecast_30d |-> 120],
    [metric_type |-> "organic_traffic", trend_direction |-> "decreasing",
     daily_forecasts |-> <<0>>, forecast_30d |-> 0] }

\* AlertConfig, config.py: the defaults, a lower severity floor, smaller caps
AlertConfigs ==
  [min_severity_for_alert : {"low", "medium"},
   negative_forecast_threshold : {10},
   max_alerts_per_run : {1, 2, 20}]

\* every input of a list has its own id: its position
WithIds(inputs) ==
  [i \in 1..Len(inputs) |->
     [f \in DOMAIN inputs[i] \cup {"id"} |-> IF f = "id" THEN i ELSE inputs[i][f]]]

AlertsInit ==
  /\ DependenciesIdle
  /\ ConfidenceIdle
  /\ DetectorIdle
  /\ StoreIdle
  /\ DeduplicatorIdle
  /\ NormalizerIdle
  /\ HealthIdle
  /\ ForecasterIdle
  /\ ClassifierIdle
  /\ ClusterIdle
  /\ AgentIdle
  /\ kws = <<>>
  /\ am_pc = "calling"
  /\ am_config \in AlertConfigs
  /\ am_anomalies \in {WithIds(s) : s \in SeqsUpTo(AlertAnomalies, MaxAlertAnomalies)}
  /\ am_forecasts \in {WithIds(s) : s \in SeqsUpTo(AlertForecasts, MaxAlertForecasts)}
  /\ am_candidates = <<>>
  /\ am_alerts = <<>>

\* one call of generate_alerts
GenerateAlerts ==
  /\ am_pc = "calling"
  /\ am_candidates' = CandidateAlerts(am_config, am_anomalies, am_forecasts)
  /\ am_alerts' = generate_alerts(am_config, am_anomalies, am_forecasts)
  /\ am_pc' = "returned"
  /\ UNCHANGED <<am_config, am_anomalies, am_forecasts, outsideAlerts>>

AlertsNext == GenerateAlerts

SpecAlerts == AlertsInit /\ [][AlertsNext]_vars

\* ---- claims about the intent classifier -------------------------------------
InSeq(x, s) == \E j \in 1..Len(s) : s[j] = x
\* the rule pass has run and the LLM pass has not touched the keywords yet
AfterRulePass == cb_pc # "idle" /\ attempt = 0
RuleClassified(i) == InSeq(i, classified) /\ ~InSeq(i, ambiguous)
WinnerScore(i) ==
  CHOOSE m \in {Len(matched_signals[i][it]) : it \in IntentSet} :
     \A it \in IntentSet : Len(matched_signals[i][it]) <= m
TotalScore(i) ==
  Len(matched_signals[i]["informational"]) + Len(matched_signals[i]["commercial"])
    + Len(matched_signals[i]["transactional"]) + Len(matched_signals[i]["navigational"])
\* 0.5 + 0.45 * (winner score / total matched score)
Dominance(i) == <<50 * TotalScore(i) + 45 * WinnerScore(i), 100 * TotalScore(i)>>

\* the LLM pass ended because the response was not JSON, or because the third
\* attempt failed like the two before it
LlmUnparsed == llm_log # <<>> /\ llm_log[Len(llm_log)] = "invalid_json"
LlmExhausted ==
  /\ Len(llm_log) = MAX_ATTEMPTS
  /\ \A j \in 1..Len(llm_log) : llm_log[j] \in {"ConnectionError", "TimeoutError"}

\* C7: with use_llm, after an unparseable LLM response or after exhausted retries,
\* every keyword the rule pass left ambiguous has intent informational,
\* confidence 0.5 and a non-empty explanation that notes the fallback.
C7_FallbackExplained ==
  (cb_pc = "returned" /\ use_llm /\ (LlmUnparsed \/ LlmExhausted)) =>
     \A j \in 1..Len(ambiguous) :
        /\ kws[ambiguous[j]].intent = "informational"
        /\ REq(kws[ambiguous[j]].intent_confidence, <<1, 2>>)
        /\ kws[ambiguous[j]].intent_explanation = "fallback"

\* C8: after classify_batch(keywords, use_llm=true) returns, the result holds
\* every input keyword and each of them has an intent, whatever the LLM returned.
C8_AllHaveIntent ==
  (cb_pc = "returned" /\ use_llm) =>
     \A i \in 1..Len(kws) : InSeq(i, classified) /\ kws[i].intent # None

\* C9: after the rule pass every classified keyword has a confidence in
\* [0.6, 0.95] equal to 0.5 + 0.45 * winner / total capped at 0.95, and every
\* keyword that matched a signal but computes below 0.6 is in the ambiguous list.
C9_RuleConfidence ==
  AfterRulePass =>
     \A i \in 1..Len(kws) :
        /\ RuleClassified(i) =>
              /\ RLeq(<<6, 10>>, kws[i].intent_confidence)
              /\ RLeq(kws[i].intent_confidence, <<95, 100>>)
              /\ TotalScore(i) > 0
              /\ REq(kws[i].intent_confidence, RMin(<<95, 100>>, Dominance(i)))
        /\ (TotalScore(i) > 0 /\ ~RLeq(<<6, 10>>, Dominance(i))) => InSeq(i, ambiguous)
        /\ InSeq(i, ambiguous) => kws[i].intent = None

\* a keyword classified by the rule pass on a tie of two intents: 0.725
C9_Witness ==
  /\ AfterRulePass
  /\ \E i \in 1..Len(kws) :
        /\ RuleClassified(i)
        /\ TotalScore(i) = 2 /\ WinnerScore(i) = 1
        /\ REq(kws[i].intent_confidence, <<725, 1000>>)

\* the signal occurs in the text between two non-word characters or text ends
Delimited(signal, text) ==
  \E p \in 1..(Len(text) - Len(signal) + 1) :
     /\ SubSeq(text, p, p + Len(signal) - 1) = signal
     /\ (p = 1 \/ text[p - 1] \notin WordChars)
     /\ (p + Len(signal) > Len(text) \/ text[p + Len(signal)] \notin WordChars)
Occurs(signal, text) ==
  \E p \in 1..(Len(text) - Len(signal) + 1) : SubSeq(text, p, p + Len(signal) - 1) = signal
PythonBuyerGuide ==
  <<"p","y","t","h","o","n"," ","b","u","y","e","r"," ","g","u","i","d","e">>

\* C10: a signal is matched, and scored, only where it occurs delimited by word
\* boundaries; a keyword whose transactional signals occur only inside longer
\* words ("python buyer guide") has no transactional match and is not
\* classified transactional.
C10_WordBoundary ==
  cb_pc # "idle" =>
     \A i \in 1..Len(kws) :
        /\ \A it \in IntentSet : \A j \in 1..Len(matched_signals[i][it]) :
              Delimited(matched_signals[i][it][j], Lower(kws[i].text))
        /\ (\A j \in 1..Len(TRANSACTIONAL_SIGNALS) :
               ~Delimited(TRANSACTIONAL_SIGNALS[j], Lower(kws[i].text)))
           => /\ matched_signals[i]["transactional"] = <<>>
              /\ (AfterRulePass => kws[i].intent # "transactional")

C10_Witness ==
  /\ AfterRulePass
  /\ \E i \in 1..Len(kws) :
        /\ kws[i].text = PythonBuyerGuide
        /\ Occurs(<<"b","u","y">>, kws[i].text)
        /\ matched_signals[i]["transactional"] = <<>>
        /\ kws[i].intent = "informational"

\* ---- claims about the cluster service ---------------------------------------
\* C4: cluster_keywords(keywords, config) returns no cluster with fewer than
\* config.min_cluster_size members.
C4_MinClusterSize ==
  cs_pc = "clustered" =>
     \A j \in 1..Len(cs_clusters) : Len(cs_clusters[j].keywords) >= cs_config

\* ---- claims about analyze -----------------------------------------------------
FailureEvents ==
  {"embed_raised", "llm_raised", "persist_raised", "vector_store_raised", "budget_exceeded"}
NoFailure == \A j \in 1..Len(events) : events[j] \notin FailureEvents
Returned == pc = "returned"

\* C1: when at least one keyword survives normalization and deduplication, every
\* collaborator call succeeds and no budget check trips, analyze runs normalize,
\* embed, classify, cluster, persist, vector-store in this order and returns
\* status 'completed' with every surviving keyword exactly once.
C1_HappyPath ==
  (Returned /\ kws # <<>> /\ NoFailure) =>
     /\ analyze_result.status = "completed"
     /\ events = <<"normalize", "embed", "classify", "cluster", "persist", "vector_store">>
     /\ Len(analyze_result.keywords) = Len(kws)
     /\ \A i \in 1..Len(kws) : InSeq(i, analyze_result.keywords)

BudgetTripped == InSeq("budget_exceeded", events)
RunTexts == {kws[i].text : i \in 1..Len(kws)}

EmbedRaised == InSeq("embed_raised", events)

\* C6: if the embedding provider call fails, analyze returns status 'failed' with
\* the error text in the error field, and the run classifies nothing, clusters
\* nothing and writes nothing to the repository or the vector store.
C6_EmbeddingFailure ==
  EmbedRaised =>
     /\ Returned
     /\ analyze_result.status = "failed"
     /\ analyze_result.error.text \in {e.message : e \in ProviderErrors}
     /\ events = <<"normalize", "embed", "embed_raised">>
     /\ \A i \in 1..Len(kws) : kws[i].intent = None /\ kws[i].cluster_id = 0
     /\ clusters = PyNone
     /\ repository = EmptyStore
     /\ vector_storage = EmptyStore

C6_Witness ==
  /\ EmbedRaised
  /\ Returned
  /\ analyze_result.error = [tag |-> "", text |-> "embedding provider unavailable"]
  /\ Len(kws) >= 2

\* ---- claims about the forecaster -------------------------------------------------
Bounded(p) == p.lower_bound <= p.predicted_value /\ p.predicted_value <= p.upper_bound

\* C2: every point of daily_forecasts and each of forecast_30d, forecast_60d and
\* forecast_90d of a returned forecast has lower_bound <= predicted_value <= upper_bound.
C2_ForecastBounds ==
  /\ \A i \in 1..Len(daily_forecasts) : Bounded(daily_forecasts[i])
  /\ forecast_result.returned =>
       /\ Bounded(forecast_result.forecast_30d)
       /\ Bounded(forecast_result.forecast_60d)
       /\ Bounded(forecast_result.forecast_90d)

\* ---- claims about the health score ------------------------------------------------
InRange(x) == 0 <= x /\ x <= 1000

\* C3: for any anomalies and forecasts, _calculate_health_score yields a health score
\* whose overall, traffic_health, ranking_health, engagement_health and
\* stability_score are each within [0, 100].
C3_HealthRange ==
  hs_pc = "returned" =>
     /\ health_score.exc = "none"
     /\ InRange(health_score.overall)
     /\ InRange(health_score.traffic_health)
     /\ InRange(health_score.ranking_health)
     /\ InRange(health_score.engagement_health)
     /\ InRange(health_score.stability_score)

\* ---- claims about the normalizer --------------------------------------------------
\* C11: normalize_text is idempotent under every configuration: normalizing an
\* already normalized text gives the same text
C11_Idempotent == nz_pc = "twice" => nz_twice = nz_once

\* the normalized text of the i-th entry of the input
NormalizedAt(i) == normalize_text(nz_self, nz_keywords[i].text)
ValidAt(i) ==
  /\ NormalizedAt(i) # <<>>
  /\ nz_self.min_length <= Len(NormalizedAt(i))
  /\ Len(NormalizedAt(i)) <= nz_self.max_length
\* the entry is the first of the input with its normalized text
FirstAt(i) == ValidAt(i) /\ \A j \in 1..(i - 1) : NormalizedAt(j) # NormalizedAt(i)
Survivors == SelectSeq([i \in 1..Len(nz_keywords) |-> i], FirstAt)
\* the text a keyword had before any normalization
OriginalText(k) == IF k.original_text # <<>> THEN k.original_text ELSE k.text

\* C12: normalize_keywords returns, in input order, exactly the first occurrence
\* of each distinct valid normalized text (empty or out-of-length texts and later
\* duplicates are dropped), each survivor carrying its original text
C12_FirstOccurrences ==
  nz_pc = "returned" =>
     /\ Len(nz_valid) = Len(Survivors)
     /\ \A j \in 1..Len(Survivors) :
           /\ nz_valid[j].text = NormalizedAt(Survivors[j])
           /\ nz_valid[j].normalized_text = NormalizedAt(Survivors[j])
           /\ nz_valid[j].original_text = OriginalText(nz_keywords[Survivors[j]])

\* a call that dropped an invalid entry and a duplicate and kept a keyword
\* whose text it changed
C12_Witness ==
  /\ nz_pc = "returned"
  /\ Len(nz_valid) = 1
  /\ \E i \in 1..Len(nz_keywords) : ~ValidAt(i)
  /\ \E i \in 1..Len(nz_keywords) : ValidAt(i) /\ ~FirstAt(i)
  /\ \E j \in 1..Len(nz_valid) : nz_valid[j].original_text # nz_valid[j].text

\* ---- claims about the similarity deduplicator -------------------------------------
\* C14: calculate_similarity returns 1.0 for two identical strings, two empty
\* strings and two equal one-character strings included, and 0 when exactly one
\* of the two strings is empty
C14_IdenticalAndEmpty ==
  sd_pc = "returned" =>
     /\ sd_text1 = sd_text2 => REq(sd_similarity, <<1, 1>>)
     /\ (sd_text1 = <<>>) # (sd_text2 = <<>>) => REq(sd_similarity, <<0, 1>>)

\* the i-th and the j-th keyword of the input are near-duplicates
Similar(i, j) ==
  RLeq(sd_threshold, calculate_similarity(sd_keywords[i].text, sd_keywords[j].text))
\* the greedy rule: an entry is kept iff it is similar to no kept entry before it
Greedy(kept) ==
  \A i \in 1..Len(sd_keywords) :
     kept[i] <=> \A j \in 1..(i - 1) : kept[j] => ~Similar(j, i)
KeptPositions(kept) == SelectSeq([i \in 1..Len(sd_keywords) |-> i], LAMBDA i : kept[i])

\* C13: deduplicate scans in input order and keeps a keyword iff its similarity
\* to every keyword kept before it is below the threshold; so the first keyword
\* is kept, no two kept keywords are similar, and every dropped keyword is
\* similar to a kept keyword that precedes it
C13_GreedyScan ==
  sd_pc = "returned" =>
     \E kept \in [1..Len(sd_keywords) -> BOOLEAN] :
        /\ Greedy(kept)
        /\ sd_unique = [j \in 1..Len(KeptPositions(kept)) |->
                          sd_keywords[KeptPositions(kept)[j]]]
        /\ sd_keywords # <<>> => kept[1]
        /\ \A i, j \in 1..Len(sd_keywords) :
              kept[i] /\ kept[j] /\ i # j => ~Similar(i, j)
        /\ \A i \in 1..Len(sd_keywords) :
              ~kept[i] => \E j \in 1..(i - 1) : kept[j] /\ Similar(j, i)

\* a call that dropped a keyword and then kept one that is similar to the
\* dropped keyword only
C13_Witness ==
  /\ sd_pc = "returned"
  /\ Len(sd_keywords) = 3
  /\ Len(sd_unique) = 2
  /\ Similar(1, 2)
  /\ Similar(2, 3)
  /\ ~Similar(1, 3)

\* ---- claims about cluster aggregation and membership -------------------------------
\* the clusters that exist: returned by cluster_keywords or merge_clusters, or built
\* by add_keyword calls
Materialized == cs_pc \in {"clustered", "merged", "adding"}
VolumeOf(k) == kws[k].search_volume
\* the sum of the search volumes of the members
MemberVolume(members) ==
  LET upto[n \in 0..Len(members)] ==
        IF n = 0 THEN 0 ELSE upto[n - 1] + VolumeOf(members[n])
  IN  upto[Len(members)]

\* C15: after any add_keyword calls, and for every cluster that cluster_keywords
\* or merge_clusters returns, total_search_volume is the sum of the members'
\* volumes, avg_search_volume that total divided by the member count, and
\* primary_keyword a member of maximal volume
C15_Aggregations ==
  Materialized =>
     \A c \in 1..Len(cs_clusters) :
        LET cluster == cs_clusters[c]
        IN  /\ cluster.keywords # <<>>
            /\ cluster.total_search_volume = MemberVolume(cluster.keywords)
            /\ REq(cluster.avg_search_volume,
                   <<MemberVolume(cluster.keywords), Len(cluster.keywords)>>)
            /\ InSeq(cluster.primary_keyword, cluster.keywords)
            /\ \A j \in 1..Len(cluster.keywords) :
                  VolumeOf(cluster.keywords[j]) <= VolumeOf(cluster.primary_keyword)

\* merge_clusters has merged two clusters of two keywords of unequal volumes
C15_Witness ==
  /\ cs_pc = "merged"
  /\ Len(cs_clusters) = 1
  /\ Len(cs_clusters[1].keywords) = 4
  /\ cs_clusters[1].total_search_volume = 80
  /\ VolumeOf(cs_clusters[1].keywords[1]) < VolumeOf(cs_clusters[1].primary_keyword)

MemberOf(k, c) == InSeq(k, cs_clusters[c].keywords)
\* C16: after cluster_keywords, and after merge_clusters on its result, no keyword
\* is in two returned clusters, every member's cluster_id is the id of the cluster
\* that contains it, and every embedded input keyword in no returned cluster has
\* no cluster_id
C16_Membership ==
  cs_pc \in {"clustered", "merged"} =>
     /\ \A c1, c2 \in 1..Len(cs_clusters) :
           c1 # c2 => /\ cs_clusters[c1].id # cs_clusters[c2].id
                      /\ \A k \in 1..Len(kws) : ~(MemberOf(k, c1) /\ MemberOf(k, c2))
     /\ \A c \in 1..Len(cs_clusters), k \in 1..Len(kws) :
           MemberOf(k, c) => kws[k].cluster_id = cs_clusters[c].id
     /\ \A k \in 1..Len(kws) :
           (kws[k].embedding # <<>> /\ \A c \in 1..Len(cs_clusters) : ~MemberOf(k, c))
              => kws[k].cluster_id = 0

\* after merge_clusters there is one cluster of three keywords, and outside of it
\* the embedded keyword that came with the id of an earlier cluster
C16_Witness ==
  /\ cs_pc = "merged"
  /\ Len(cs_clusters) = 1
  /\ Len(cs_clusters[1].keywords) = 3
  /\ \E k \in 1..Len(kws) :
        /\ kws[k].text = <<"c">>
        /\ kws[k].embedding # <<>>
        /\ ~MemberOf(k, 1)

\* ---- claims about the time series store ----------------------------------------------
\* C17: after any store_time_series calls with any data, the points stored under
\* each key have pairwise distinct dates and are in ascending date order
C17_DistinctSortedDates ==
  \A key \in DOMAIN ts_data :
     \A i, j \in 1..Len(ts_data[key]) :
        i < j => ts_data[key][i].date < ts_data[key][j].date

\* ---- claims about the anomaly detector ---------------------------------------------
\* low <= medium <= high <= critical
AscendingThresholds ==
  /\ RLeq(dt_config.low_threshold, dt_config.medium_threshold)
  /\ RLeq(dt_config.medium_threshold, dt_config.high_threshold)
  /\ RLeq(dt_config.high_threshold, dt_config.critical_threshold)
\* the order none < low < medium < high < critical
TierRank(tier) ==
  CASE tier = "low" -> 1 [] tier = "medium" -> 2 [] tier = "high" -> 3
    [] tier = "critical" -> 4 [] OTHER -> 0
AbsRational(z) == <<Abs(z[1]), z[2]>>

\* C18: with the thresholds in ascending order, _calculate_severity is monotonic:
\* |z1| <= |z2| implies that the tier of z2 is not below the tier of z1
C18_SeverityMonotonic ==
  (dt_pc = "returned" /\ dt_z # <<>> /\ AscendingThresholds
     /\ RLeq(AbsRational(dt_z[1]), AbsRational(dt_z[2])))
  => TierRank(dt_tiers[1]) <= TierRank(dt_tiers[2])

\* with the default thresholds, a negative z-score of tier low and a greater one
\* of tier critical
C18_Witness ==
  /\ dt_pc = "returned"
  /\ dt_config = DefaultAnomalyConfig
  /\ dt_z = << <<0 - 3, 2>>, <<7, 2>> >>
  /\ dt_tiers = <<"low", "critical">>

\* the positions of the most recent min(7, n) points
RecentPositions ==
  {p \in 1..Len(dt_values) : p > Len(dt_values) - 7}
\* n times the distance of a value from the mean of the series
FromMean(v) == Len(dt_values) * v - Sum(dt_values)
\* |z| >= t for the z-score of value v, the sample variance taken as the sum of
\* the squared distances from the mean over n - 1
ZAtLeast(v, t) ==
  LET squares == Sum([i \in 1..Len(dt_values) |-> FromMean(dt_values[i]) * FromMean(dt_values[i])])
  IN  \/ t[1] <= 0
      \/ /\ squares > 0
         /\ FromMean(v) * FromMean(v) * (Len(dt_values) - 1) * t[2] * t[2]
              >= t[1] * t[1] * squares
\* the value of rank k (from 0) among the values of the series
Ranked(k) ==
  CHOOSE v \in {dt_values[i] : i \in 1..Len(dt_values)} :
     /\ Cardinality({i \in 1..Len(dt_values) : dt_values[i] < v}) <= k
     /\ Cardinality({i \in 1..Len(dt_values) : dt_values[i] <= v}) > k
OutsideIqr(v) ==
  LET q1 == Ranked(Len(dt_values) \div 4)
      q3 == Ranked((3 * Len(dt_values)) \div 4)
      m == dt_config.iqr_multiplier
  IN  \/ v * m[2] < q1 * m[2] - m[1] * (q3 - q1)
      \/ v * m[2] > q3 * m[2] + m[1] * (q3 - q1)

\* C19: every anomaly that detect returns is about one of the most recent
\* min(7, n) points, has a severity (|z| >= low threshold), has |deviation_percent|
\* >= min_change_percent, and has |z| >= sensitivity or a value outside the IQR
\* bounds; a series shorter than min_data_points gives no anomaly
C19_DetectSound ==
  dt_pc = "returned" =>
     /\ Len(dt_values) < dt_config.min_data_points => dt_anomalies = <<>>
     /\ \A a \in 1..Len(dt_anomalies) :
           LET anomaly == dt_anomalies[a]
               v == anomaly.current_value
           IN  /\ \E p \in RecentPositions : dt_values[p] = v
               /\ anomaly.severity \in {"low", "medium", "high", "critical"}
               /\ ZAtLeast(v, dt_config.low_threshold)
               /\ Abs(anomaly.deviation_percent) * dt_config.min_change_percent[2]
                    >= 100 * dt_config.min_change_percent[1]
               /\ ZAtLeast(v, dt_sensitivity) \/ OutsideIqr(v)

\* under the default configuration, a series of eight values whose last value is
\* reported although its |z| is below the sensitivity, because it is outside the
\* IQR bounds
C19_Witness ==
  /\ dt_pc = "returned"
  /\ dt_config = DefaultAnomalyConfig
  /\ Len(dt_values) = 8
  /\ Len(dt_anomalies) = 1
  /\ dt_anomalies[1].current_value = dt_values[8]
  /\ ~ZAtLeast(dt_values[8], dt_sensitivity)
  /\ OutsideIqr(dt_values[8])

\* C20: every anomaly that detect returns, for every metric type and either
\* direction, carries between 1 and 3 hypotheses
C20_HypothesesCount ==
  dt_pc = "returned" =>
     \A a \in 1..Len(dt_anomalies) :
        /\ Len(dt_anomalies[a].hypotheses) >= 1
        /\ Len(dt_anomalies[a].hypotheses) <= 3

\* ---- claims about the confidence of forecasts ------------------------------------------
\* C24: for a fixed series and a fixed method the confidence for day offset d2 is at
\* most the confidence for day offset d1 whenever d1 <= d2, before and after the
\* round(confidence, 3) that forecast applies to the points of daily_forecasts; d2
\* is the latest day called, and every day is the latest in some state
C24_ConfidenceNonIncreasing ==
  LET d2 == Len(cf_confidences)
  IN  \A d1 \in 1..d2 :
         /\ cf_confidences[d2] <= cf_confidences[d1]
         /\ Round(cf_confidences[d2], 3) <= Round(cf_confidences[d1], 3)

\* the ensemble called for 90 days on a series that is not constant, its confidence
\* lower at day 90 than at day 1 and level over the last days
C24_Witness ==
  /\ cf_method = "ensemble"
  /\ Len(cf_confidences) = 90
  /\ cf_confidences[90] < cf_confidences[1]
  /\ cf_confidences[90] = cf_confidences[89]
  /\ \E i \in 1..Len(cf_values) : cf_values[i] # cf_values[1]

\* ---- claims about the retries of the LLM call -----------------------------------------
\* C25: one classify_batch call makes at most 3 LLM completions; a completion is
\* followed by another one only if it raised ConnectionError or TimeoutError, so an
\* attempt that got a response, malformed or not, or raised anything else is the last
C25_RetryPolicy ==
  /\ Len(llm_log) <= 3
  /\ attempt = Len(llm_log)
  /\ \A j \in 1..(Len(llm_log) - 1) : llm_log[j] \in {"ConnectionError", "TimeoutError"}
  /\ cb_pc = "llm" /\ llm_log # <<>> =>
        llm_log[Len(llm_log)] \in {"ConnectionError", "TimeoutError"}

\* a call that returned after three completions: a connection error, a timeout, and
\* then a response that is not JSON
C25_Witness ==
  /\ cb_pc = "returned"
  /\ llm_log = <<"ConnectionError", "TimeoutError", "invalid_json">>

\* ---- claims about the rule pass --------------------------------------------------------
\* the keyword at position i matched no signal phrase of any intent
NoSignal(i) == \A it \in IntentSet : matched_signals[i][it] = <<>>

C26_LastWriteWins ==
  [][ts_call'.op = "store_time_series" =>
       LET key == ts_call'.args[1]
           data_points == ts_call'.args[2]
       IN  \A i \in 1..Len(data_points) :
              /\ key \in DOMAIN ts_data
              /\ \E j \in 1..Len(ts_data[key]) : ts_data[key][j].date = data_points[i].date
              /\ \A k \in (i + 1)..Len(data_points) : data_points[k].date # data_points[i].date
              => \A j \in 1..Len(ts_data'[key]) :
                    ts_data'[key][j].date = data_points[i].date
                      => ts_data'[key][j].value = data_points[i].value]_vars

\* the four read operations of the store
ReadOperations ==
  {"get_time_series", "get_baseline_stats", "get_keyword_rankings", "get_latest_ranking"}

\* C28: a read operation leaves the observable state alone: for every site,
\* get_stored_metrics and get_data_count return after the read what they returned
\* before it
C28_ReadsChangeNothing ==
  [][ts_call'.op \in ReadOperations =>
       \A site_url \in StoreSites \cup {"other"} :
          /\ get_stored_metrics(ts_data', site_url) = get_stored_metrics(ts_data, site_url)
          /\ get_data_count(ts_data', ts_rankings', site_url)
               = get_data_count(ts_data, ts_rankings, site_url)]_vars

\* ---- claims about the error of a failed analysis ----------------------------------------
\* a collaborator call of the run raised
CollaboratorRaised ==
  \E j \in 1..Len(events) :
     events[j] \in {"embed_raised", "persist_raised", "vector_store_raised"}

\* C29: the error of the returned result is tagged 'Timeout:' only if a
\* between-stage budget check found the budget exceeded; when the embedding
\* provider, the repository or the vector store raised, the error is the raw text
\* of what was raised, without the timeout tag
C29_TimeoutTagMeansBudget ==
  Returned =>
     /\ analyze_result.error.tag = "Timeout: " => BudgetTripped
     /\ CollaboratorRaised =>
           /\ analyze_result.status = "failed"
           /\ analyze_result.error.tag = ""
           /\ analyze_result.error.text
                \in {e.message : e \in ProviderErrors \cup StoreErrors}

\* ---- claims about the global agent ------------------------------------------------------
\* no step of shutdown_agent lies at the positions from..to of the log
NoShutdownIn(from, to) ==
  \A j \in from..to : dp_log[j].op \notin {"shutdown", "closed"}

\* C30: among the get_agent calls that run between two shutdown_agent calls, in any
\* interleaving, create_agent is invoked at most once and every call returns the
\* same agent instance
C30_OneAgent ==
  \A i \in 1..Len(dp_log) : \A j \in (i + 1)..Len(dp_log) :
     NoShutdownIn(i, j) =>
        /\ ~(dp_log[i].op = "create" /\ dp_log[j].op = "create")
        /\ dp_log[i].op = "return" /\ dp_log[j].op = "return"
             => dp_log[i].agent = dp_log[j].agent

\* ---- claims about the alert manager ---------------------------------------------
AlertsReturned == am_pc = "returned"

\* the place of a priority in the order critical, urgent, warning, info
PriorityRank(priority) ==
  CASE priority = "critical" -> 1
    [] priority = "urgent" -> 2
    [] priority = "warning" -> 3
    [] priority = "info" -> 4

\* the candidates generate_alerts built and did not return
DroppedAlerts ==
  {am_candidates[k] : k \in 1..Len(am_candidates)} \ {am_alerts[i] : i \in 1..Len(am_alerts)}

\* C21: generate_alerts returns at most max_alerts_per_run alerts, each of them one of
\* the candidates, in the order critical, urgent, warning, info; when there are more
\* candidates than the cap, no dropped candidate has a strictly higher priority than
\* a returned alert.
C21_SortedAndCapped ==
  AlertsReturned =>
    /\ Len(am_alerts) <= am_config.max_alerts_per_run
    /\ \A i \in 1..Len(am_alerts) : \E k \in 1..Len(am_candidates) : am_candidates[k] = am_alerts[i]
    /\ \A i, j \in 1..Len(am_alerts) :
         i < j => PriorityRank(am_alerts[i].priority) <= PriorityRank(am_alerts[j].priority)
    /\ Len(am_candidates) > am_config.max_alerts_per_run =>
         \A dropped \in DroppedAlerts : \A i \in 1..Len(am_alerts) :
           PriorityRank(dropped.priority) >= PriorityRank(am_alerts[i].priority)

\* four candidates of four priorities under a cap of two: the info alert built first and
\* the warning alert built last are dropped, the critical and the urgent one returned
C21_Witness ==
  /\ AlertsReturned
  /\ am_config.max_alerts_per_run = 2
  /\ Len(am_candidates) = 4
  /\ am_candidates[1].priority = "info"
  /\ am_candidates[4].priority = "warning"
  /\ Len(am_alerts) = 2
  /\ am_alerts[1].priority = "critical"
  /\ am_alerts[2].priority = "urgent"
  /\ Cardinality(DroppedAlerts) = 2

\* C22: every alert derived from an anomaly carries at most 3 investigation steps,
\* and the step at list position i has order i.
C22_AtMostThreeSteps ==
  AlertsReturned =>
    \A i \in 1..Len(am_alerts) :
      am_alerts[i].anomaly_id # 0 =>
        /\ Len(am_alerts[i].investigation_steps) <= 3
        /\ \A k \in 1..Len(am_alerts[i].investigation_steps) :
             am_alerts[i].investigation_steps[k].order = k

\* C23: generate_alerts([], [forecast]) for a decreasing forecast whose projected
\* 30-day decline is at least 10% returns exactly one alert, of priority urgent or
\* critical, with a non-empty list of investigation steps.
C23_DecliningForecastAlert ==
  ( /\ AlertsReturned
    /\ am_anomalies = <<>>
    /\ Len(am_forecasts) = 1
    /\ am_forecasts[1].trend_direction = "decreasing"
    /\ am_forecasts[1].daily_forecasts # <<>>
    /\ am_forecasts[1].daily_forecasts[1] > 0
    /\ (am_forecasts[1].daily_forecasts[1] - am_forecasts[1].forecast_30d) * 100
         >= 10 * am_forecasts[1].daily_forecasts[1] )
  => /\ Len(am_alerts) = 1
     /\ am_alerts[1].priority \in {"urgent", "critical"}
     /\ am_alerts[1].investigation_steps # <<>>

====
